---- MODULE Spec2Model ----
(***************************************************************************)
(* Privora proof ledger: Merkle accumulator, hash-chained NDJSON store,    *)
(* append queue with leader lease, nonce store.                            *)
(*                                                                         *)
(* Byte strings and digests are finite sequences of integers.  sha256 is   *)
(* modelled as a collision-free function: a digest is its bracketed        *)
(* preimage, so two digests are equal exactly when their inputs are.       *)
(***************************************************************************)
EXTENDS Integers, Sequences, FiniteSets, TLC

\* ------------------------------------------------------------------ bounds
MaxLeaves == 5
NumLeafVals == 3

MaxAppends == 3
MaxEnq == 3
LruMax == 1
MemMax == 2
NonceTtl == 2
MaxNow == 3
MaxIxAppends == 5
MaxBytes == 4
Hwm == 3
FlushEvery == 2
CacheMax == 2
MaxIdcOps == 5
MaxKeys == 2
MaxCanonNum == 2
\* nested objects the engine's call stack has room for
MaxStack == 4
MaxReqs == 3

VARIABLES
    \* Merkle accumulator harness (api/src/crypto/merkle.ts)
    mkLeaves, mkIndex, mkRoot, mkBranch, mkOk, mkPc,
    mkTry,        \* a changed proof or leaf list and what came of it
    \* Hash-chained store (api/src/store/proof-store.ts)
    fsLines,      \* day -> the complete lines of proofs-<day>.ndjson
    fsExists,     \* day -> the file exists
    fsFrag,       \* day -> the file ends in a partial line (no newline)
    today,        \* the current UTC date
    day,          \* this.day (currentFilePath is the file of this day)
    lastHash,     \* this.lastHash
    leafs,        \* this.leafs
    tasks,        \* the running ensureHeader / recoverState calls
    calls,        \* the running append calls, per caller
    nAppends,
    sinceOpen,    \* append calls begun since the store was constructed
    \* Append queue in Redis mode (api/src/store/append-queue.ts), two instances
    qRedis,       \* the list privora:append
    qFile,        \* the lines of the target file, each with who wrote it
    lease,        \* the leader lease in the store: its holder, or free
    isLeader,     \* instance -> elector.isLeader
    lru,          \* instance -> the keys of IdLRU.map, in insertion order
    lpc,          \* instance -> where its drain loop stands
    item,         \* instance -> the eventId of the item it popped
    stopped,      \* instance -> close() was called
    errors,       \* instance -> appendErrors
    nEnq,         \* eventId -> how many times it was enqueued
    lost,         \* instance -> its lease was lost since it last acquired it
    race,         \* the acquire calls answered since the lease was last free
    lostItems,    \* the eventIds of items popped and then lost
    evictions,    \* <<instance, eventId>>: the id was evicted from its cache
    \* Append queue without Redis (fallback mode), one instance
    fbLru,        \* the keys of IdLRU.map, in insertion order
    fbFile,       \* the eventIds of the lines of the target file
    fbCalls,      \* caller -> its running enqueue call
    fbCount,      \* enqueue calls made
    fbEvicted,    \* the ids evicted from the cache
    \* Nonce store (api/src/util/nonceStore.ts, server.ts nonceCheckAndSet)
    nsMode,       \* which implementation and backend answers
    nsMem,        \* the Map mem: <<key, expiry>> in insertion order
    nsRedis,      \* key -> expiry of the Redis key, 0 when it was never set
    nsFiles,      \* the keys with a .cache/nonce-<hash> file
    nsTimers,     \* the pending setTimeout deletions
    nsNow,        \* Date.now(), in ticks
    nsAdmitted,   \* key -> when it was last admitted, -1 if never
    nsLast,       \* the last call: key, time, answer, the admission before it
    \* Index-backed ProofStore (the second api/src/store/proof-store.ts)
    ixFiles,      \* day -> the lines of proofs-<day>.ndjson
    ixIndex,      \* day -> proofs-<day>.index.json
    ixRootFile,   \* day -> proofs-<day>.root.json
    ixWriter,     \* this.writer: dayKey and bytes
    ixBuf,        \* the lines the write stream has buffered
    ixWaiters,    \* the lines whose calls wait for "drain", in order
    ixLeaves,     \* this.leaves
    ixRes,        \* record -> how its append call ended
    ixCount,      \* append calls made
    ixBroken,     \* the stream was destroyed by a write error
    ixToday,      \* the UTC day
    ixFailed,     \* the records whose write failed
    ixRotated,    \* the append calls that met a needed rotation
    ixQuery,      \* the last getPath call and its answer
    \* IdLRU on its own (part_012)
    idc,          \* the keys of this.map, in Map order
    idcEntered,   \* the ids in the order they entered the map
    idcLast,      \* the last call and its outcome
    idcOps,       \* calls made
    \* Canonical serialization harness (api/src/util/canonical.ts)
    cnA, cnB,     \* two values
    cnRel,        \* how cnB was made from cnA
    cnOut,        \* algorithm -> what contentHash gave for cnA and for cnB
    cnPc,
    \* requireHmac middleware (api/src/mw/requireHmac.ts)
    hmLast,       \* the last request (n: how many there were) and its answer
    hmTried       \* the nonces of the requests rejected before the nonce check

merkleVars == <<mkLeaves, mkIndex, mkRoot, mkBranch, mkOk, mkPc, mkTry>>
storeVars == <<fsLines, fsExists, fsFrag, today, day, lastHash, leafs, tasks, calls,
               nAppends, sinceOpen>>
queueVars == <<qRedis, qFile, lease, isLeader, lru, lpc, item, stopped, errors,
               nEnq, lost, race, lostItems, evictions>>
fallbackVars == <<fbLru, fbFile, fbCalls, fbCount, fbEvicted>>
nonceVars == <<nsMode, nsMem, nsRedis, nsFiles, nsTimers, nsNow, nsAdmitted, nsLast>>
ixVars == <<ixFiles, ixIndex, ixRootFile, ixWriter, ixBuf, ixWaiters, ixLeaves, ixRes,
            ixCount, ixBroken, ixToday, ixFailed, ixRotated, ixQuery>>
libVars == <<idc, idcEntered, idcLast, idcOps>>
canonVars == <<cnA, cnB, cnRel, cnOut, cnPc>>
hmacVars == <<hmLast, hmTried>>
vars == <<merkleVars, storeVars, queueVars, fallbackVars, nonceVars, ixVars, libVars, canonVars, hmacVars>>

\* What the actions of one component leave alone.
outsideMerkle == <<storeVars, queueVars, fallbackVars, nonceVars, ixVars, libVars, canonVars, hmacVars>>
outsideStore == <<merkleVars, queueVars, fallbackVars, nonceVars, ixVars, libVars, canonVars, hmacVars>>
outsideQueue == <<merkleVars, storeVars, fallbackVars, nonceVars, ixVars, libVars, canonVars, hmacVars>>
outsideFallback == <<merkleVars, storeVars, queueVars, nonceVars, ixVars, libVars, canonVars, hmacVars>>
outsideNonce == <<merkleVars, storeVars, queueVars, fallbackVars, ixVars, libVars, canonVars, hmacVars>>
outsideIx == <<merkleVars, storeVars, queueVars, fallbackVars, nonceVars, libVars, canonVars, hmacVars>>
outsideLib == <<merkleVars, storeVars, queueVars, fallbackVars, nonceVars, ixVars, canonVars, hmacVars>>
outsideCanon == <<merkleVars, storeVars, queueVars, fallbackVars, nonceVars, ixVars, libVars, hmacVars>>
outsideHmac == <<merkleVars, storeVars, queueVars, fallbackVars, ixVars, libVars, canonVars>>

\* ------------------------------------------------------------ byte strings
\* All sequences over S of length at most n.
BoundedSeq(S, n) == UNION {[1..k -> S] : k \in 0..n}

Range(f) == {f[x] : x \in DOMAIN f}

\* sha256Buf: the digest of s, collision free (0 opens, -1 closes the preimage).
sha256Buf(s) == <<0>> \o s \o <<-1>>

\* "0x" + buf.toString("hex"): the prefix is one symbol (-2) before the bytes.
ToHex(buf) == <<-2>> \o buf

\* Buffer.from(h.slice(2), "hex"): drops the prefix symbol.
FromHex(h) == SubSeq(h, 2, Len(h))

\* Buffer.alloc(32): the all-zero sentinel, no digest and no leaf.
ZeroHash == <<-3>>

\* The leaves the harness draws from: 32-byte values, one symbol each.
LeafVals == {<<k>> : k \in 1..NumLeafVals}

\* ------------------------------------------------------------------ merkle
\* R = i + 1 < level.length ? level[i + 1] : L   (i is 1-based here)
\* A pairing that took every node as its own right neighbour.
RightOfSelf(level, i) == level[i]

RightOf(level, i) == IF i + 1 <= Len(level) THEN level[i + 1] ELSE level[i]

RECURSIVE NextLevelFrom(_, _)
NextLevelFrom(level, i) ==
    IF i > Len(level) THEN <<>>
    ELSE <<sha256Buf(level[i] \o RightOf(level, i))>> \o NextLevelFrom(level, i + 2)

\* A level-builder that promotes an unpaired trailing node unchanged.
RECURSIVE NextLevelPromoteFrom(_, _)
NextLevelPromoteFrom(level, i) ==
    IF i > Len(level) THEN <<>>
    ELSE IF i + 1 <= Len(level)
         THEN <<sha256Buf(level[i] \o level[i + 1])>> \o NextLevelPromoteFrom(level, i + 2)
         ELSE <<level[i]>>

NextLevelPromote(level) == NextLevelPromoteFrom(level, 1)

\* One pass of the for loop of merkleRoot / merklePath: the next level.
NextLevel(level) == NextLevelFrom(level, 1)

RECURSIVE ReduceLevels(_)
ReduceLevels(level) ==
    IF Len(level) > 1 THEN ReduceLevels(NextLevel(level)) ELSE level[1]

merkleRoot(leaves) == IF Len(leaves) = 0 THEN ZeroHash ELSE ReduceLevels(leaves)

\* The sibling a path step records, with the side flipped.
BranchStepFlipped(level, idx) ==
    LET isRight == idx % 2 = 1
        pairIdx == IF isRight THEN idx - 1 ELSE idx + 1
        sibling == IF pairIdx < Len(level) THEN level[pairIdx + 1] ELSE level[idx + 1]
    IN  [hash |-> ToHex(sibling), side |-> IF isRight THEN "R" ELSE "L"]

\* One step of merklePath's loop (idx is 0-based as in the code).
BranchStep(level, idx) ==
    LET isRight == idx % 2 = 1
        pairIdx == IF isRight THEN idx - 1 ELSE idx + 1
        sibling == IF pairIdx < Len(level) THEN level[pairIdx + 1] ELSE level[idx + 1]
    IN  [hash |-> ToHex(sibling), side |-> IF isRight THEN "L" ELSE "R"]

RECURSIVE PathFrom(_, _)
PathFrom(level, idx) ==
    IF Len(level) > 1
    THEN <<BranchStep(level, idx)>> \o PathFrom(NextLevel(level), idx \div 2)
    ELSE <<>>

merklePath(leaves, index) == PathFrom(leaves, index)

\* A fold that put the sibling on the right whatever the side flag says.
RECURSIVE FoldBranchAnySide(_, _, _)
FoldBranchAnySide(acc, branch, k) ==
    IF k > Len(branch) THEN acc
    ELSE FoldBranchAnySide(sha256Buf(acc \o FromHex(branch[k].hash)), branch, k + 1)

RECURSIVE FoldBranch(_, _, _)
FoldBranch(acc, branch, k) ==
    IF k > Len(branch) THEN acc
    ELSE LET sib == FromHex(branch[k].hash)
             pair == IF branch[k].side = "L" THEN sib \o acc ELSE acc \o sib
         IN  FoldBranch(sha256Buf(pair), branch, k + 1)

verifyMerkleProof(leaf, branch, expectedRoot) ==
    ToHex(FoldBranch(FromHex(leaf), branch, 1)) = expectedRoot

\* ---------------------------------------------------------- merkle harness
NoTry == [kind |-> "none", at |-> 0, ok |-> FALSE, same |-> FALSE, root |-> <<>>]

InitMerkle ==
    /\ mkLeaves \in BoundedSeq(LeafVals, MaxLeaves)
    /\ mkIndex = 0
    /\ mkRoot = <<>>
    /\ mkBranch = <<>>
    /\ mkOk = FALSE
    /\ mkPc = "input"
    /\ mkTry = NoTry

MkRoot ==
    /\ mkPc = "input"
    /\ mkRoot' = merkleRoot(mkLeaves)
    /\ mkPc' = "rooted"
    /\ UNCHANGED <<mkLeaves, mkIndex, mkBranch, mkOk, mkTry>>
    /\ UNCHANGED outsideMerkle

MkPath ==
    /\ mkPc = "rooted"
    /\ \E i \in 0..(Len(mkLeaves) - 1) :
        /\ mkIndex' = i
        /\ mkBranch' = merklePath(mkLeaves, i)
    /\ mkPc' = "pathed"
    /\ UNCHANGED <<mkLeaves, mkRoot, mkOk, mkTry>>
    /\ UNCHANGED outsideMerkle

MkVerify ==
    /\ mkPc = "pathed"
    /\ mkOk' = verifyMerkleProof(ToHex(mkLeaves[mkIndex + 1]), mkBranch, ToHex(mkRoot))
    /\ mkPc' = "verified"
    /\ UNCHANGED <<mkLeaves, mkIndex, mkRoot, mkBranch, mkTry>>
    /\ UNCHANGED outsideMerkle

MerkleIdle ==
    /\ mkLeaves = <<>>
    /\ mkIndex = 0
    /\ mkRoot = <<>>
    /\ mkBranch = <<>>
    /\ mkOk = FALSE
    /\ mkPc = "input"
    /\ mkTry = NoTry

NextMerkle == MkRoot \/ MkPath \/ MkVerify

\* The proof of leaf mkIndex with one component changed, or the proof
\* unchanged with another leaf, through verifyMerkleProof against the root.
\* same tells, for a flipped side flag, whether the sibling of that step is
\* the very node it is paired with.
MkTamper(kind, k, v) ==
    /\ mkPc = "pathed"
    /\ kind \in {"hash", "side"} => k <= Len(mkBranch)
    /\ kind = "hash" => ToHex(v) # mkBranch[k].hash
    /\ kind = "leaf" => (k = 1 /\ v # mkLeaves[mkIndex + 1])
    /\ LET leaf == IF kind = "leaf" THEN v ELSE mkLeaves[mkIndex + 1]
           branch == CASE kind = "hash" -> [mkBranch EXCEPT ![k].hash = ToHex(v)]
                       [] kind = "side" ->
                            [mkBranch EXCEPT ![k].side = IF @ = "L" THEN "R" ELSE "L"]
                       [] OTHER -> mkBranch
           acc == FoldBranch(leaf, SubSeq(mkBranch, 1, k - 1), 1)
       IN  mkTry' = [kind |-> kind, at |-> k,
                     ok |-> verifyMerkleProof(ToHex(leaf), branch, ToHex(mkRoot)),
                     same |-> kind = "side" /\ FromHex(mkBranch[k].hash) = acc,
                     root |-> <<>>]
    /\ mkPc' = "tampered"
    /\ UNCHANGED <<mkLeaves, mkIndex, mkRoot, mkBranch, mkOk>>
    /\ UNCHANGED outsideMerkle

\* merkleRoot of the list with leaf i replaced by another value, or with the
\* different leaves i and j swapped.
MkPerturb(kind, i, j, v) ==
    /\ mkPc = "rooted"
    /\ i \in DOMAIN mkLeaves
    /\ kind = "replace" => (j = i /\ v # mkLeaves[i])
    /\ kind = "swap" => (j \in DOMAIN mkLeaves /\ i < j /\ mkLeaves[i] # mkLeaves[j]
                         /\ v = mkLeaves[j])
    /\ LET other == [mkLeaves EXCEPT ![i] = v, ![j] = IF kind = "swap" THEN mkLeaves[i] ELSE v]
       IN  mkTry' = [kind |-> kind, at |-> i, ok |-> merkleRoot(mkLeaves) = mkRoot,
                     same |-> FALSE, root |-> merkleRoot(other)]
    /\ mkPc' = "perturbed"
    /\ UNCHANGED <<mkLeaves, mkIndex, mkRoot, mkBranch, mkOk>>
    /\ UNCHANGED outsideMerkle

NextTamper ==
    \/ MkRoot
    \/ MkPath
    \/ \E kind \in {"hash", "side", "leaf"}, k \in 1..MaxLeaves, v \in LeafVals :
          MkTamper(kind, k, v)
    \/ \E kind \in {"replace", "swap"}, i \in 1..MaxLeaves, j \in 1..MaxLeaves, v \in LeafVals :
          MkPerturb(kind, i, j, v)

\* merkleRoot of the list with one more leaf v at its end.
MkExtend(v) ==
    /\ mkPc = "rooted"
    /\ Len(mkLeaves) < MaxLeaves
    /\ mkTry' = [kind |-> "extend", at |-> Len(mkLeaves) + 1, ok |-> FALSE,
                 same |-> FALSE, root |-> merkleRoot(Append(mkLeaves, v))]
    /\ mkPc' = "perturbed"
    /\ UNCHANGED <<mkLeaves, mkIndex, mkRoot, mkBranch, mkOk>>
    /\ UNCHANGED outsideMerkle

\* verifyMerkleProof against the root for a value that stands k levels above
\* leaf mkIndex (k = 0: the leaf itself), with the steps of the leaf's proof
\* from that level on.  same tells whether the value is one of the leaves.
MkShorten(k) ==
    /\ mkPc = "pathed"
    /\ k <= Len(mkBranch)
    /\ LET x == FoldBranch(mkLeaves[mkIndex + 1], SubSeq(mkBranch, 1, k), 1)
           rest == SubSeq(mkBranch, k + 1, Len(mkBranch))
       IN  mkTry' = [kind |-> "shorten", at |-> k,
                     ok |-> verifyMerkleProof(ToHex(x), rest, ToHex(mkRoot)),
                     same |-> x \in Range(mkLeaves),
                     root |-> <<>>]
    /\ mkPc' = "tampered"
    /\ UNCHANGED <<mkLeaves, mkIndex, mkRoot, mkBranch, mkOk>>
    /\ UNCHANGED outsideMerkle

NextForge ==
    \/ MkRoot
    \/ MkPath
    \/ \E v \in LeafVals : MkExtend(v)
    \/ \E k \in 0..MaxLeaves : MkShorten(k)

\* ------------------------------------------------- hash-chained store
Days == {1, 2}
Callers == {1, 2}       \* two append calls may be in flight at once
Null == <<>>            \* null: (this.lastHash || "") is the empty string

\* sha(s): the hex digest of the string s.
sha(s) == sha256Buf(s)

\* JSON.stringify(hdr) of the header of a day's file (createdAt differs per day).
HeaderText(d) == <<-4, d>>

HeaderLine(d) == [t |-> "header", raw |-> HeaderText(d), prevHash |-> Null, lineHash |-> Null]

\* A line JSON.parse rejects: a partial line, or a partial line run together
\* with the line appended after it.
BadLine == [t |-> "bad", raw |-> <<>>, prevHash |-> Null, lineHash |-> Null]

\* rawBase of the record with proofHash r, chained to prev.
Chained(r, prev) ==
    [t |-> "rec", raw |-> <<r>>, prevHash |-> prev, lineHash |-> sha(prev \o <<r>>)]

\* The places of the list of running ensureHeader and recoverState calls.
TaskSlots == 1..4

IdleCall == [pc |-> "idle", fp |-> 0, line |-> BadLine, first |-> FALSE, want |-> Null]

RemoveAt(seq, k) == SubSeq(seq, 1, k - 1) \o SubSeq(seq, k + 1, Len(seq))

\* fs.promises.appendFile(fp, text): the text lands after whatever the file
\* holds; after a partial line it runs together with it into one bad line.
Land(d, ln) ==
    /\ fsLines' = [fsLines EXCEPT ![d] = Append(@, IF fsFrag[d] THEN BadLine ELSE ln)]
    /\ fsFrag' = [fsFrag EXCEPT ![d] = FALSE]
    /\ fsExists' = [fsExists EXCEPT ![d] = TRUE]

\* void this.ensureHeader(fp); void this.recoverState(fp): ensureHeader runs
\* to its stat, recoverState returns at once when the file does not exist.
Spawn(d, exists) ==
    <<[kind |-> "eh", fp |-> d, pc |-> "stat", pos |-> 0]>>
    \o (IF exists THEN <<[kind |-> "rec", fp |-> d, pc |-> "scan", pos |-> 0]>> ELSE <<>>)

\* What a scan that skips unparseable lines rebuilds from a file: the chain
\* pointer and the leaf list of its valid lines.
RECURSIVE ValidLast(_, _)
ValidLast(lines, k) ==
    IF k = 0 THEN Null
    ELSE IF lines[k].t = "rec" THEN lines[k].lineHash
    ELSE IF lines[k].t = "header" THEN sha(lines[k].raw)
    ELSE ValidLast(lines, k - 1)

RECURSIVE ValidLeafs(_, _)
ValidLeafs(lines, k) ==
    IF k = 0 THEN <<>>
    ELSE IF lines[k].t = "rec" THEN Append(ValidLeafs(lines, k - 1), lines[k].raw)
    ELSE ValidLeafs(lines, k - 1)

StoreInit ==
    /\ fsLines = [d \in Days |-> <<>>]
    /\ fsExists = [d \in Days |-> FALSE]
    /\ fsFrag = [d \in Days |-> FALSE]
    /\ today = 1
    /\ day = 1
    /\ lastHash = Null
    /\ leafs = <<>>
    /\ tasks = Spawn(1, FALSE)
    /\ calls = [c \in Callers |-> IdleCall]
    /\ nAppends = 0
    /\ sinceOpen = 0

\* ensureHeader up to its decision: stat, return when the file has bytes,
\* otherwise issue the header write.
EhStat(k) ==
    /\ k \in DOMAIN tasks
    /\ tasks[k].kind = "eh" /\ tasks[k].pc = "stat"
    /\ LET d == tasks[k].fp
           nonEmpty == Len(fsLines[d]) > 0 \/ fsFrag[d]
       IN  tasks' = IF nonEmpty THEN RemoveAt(tasks, k)
                    ELSE [tasks EXCEPT ![k].pc = "writing"]
    /\ UNCHANGED <<fsLines, fsExists, fsFrag, today, day, lastHash, leafs, calls,
                   nAppends, sinceOpen>>
    /\ UNCHANGED outsideStore

\* The header write reaches the file.
EhLand(k) ==
    /\ k \in DOMAIN tasks
    /\ tasks[k].kind = "eh" /\ tasks[k].pc = "writing"
    /\ Land(tasks[k].fp, HeaderLine(tasks[k].fp))
    /\ tasks' = [tasks EXCEPT ![k].pc = "landed"]
    /\ UNCHANGED <<today, day, lastHash, leafs, calls, nAppends, sinceOpen>>
    /\ UNCHANGED outsideStore

\* ensureHeader resumes after the write: this.lastHash = sha(header).
EhDone(k) ==
    /\ k \in DOMAIN tasks
    /\ tasks[k].kind = "eh" /\ tasks[k].pc = "landed"
    /\ lastHash' = sha(HeaderText(tasks[k].fp))
    /\ tasks' = RemoveAt(tasks, k)
    /\ UNCHANGED <<fsLines, fsExists, fsFrag, today, day, leafs, calls,
                   nAppends, sinceOpen>>
    /\ UNCHANGED outsideStore

\* The line recoverState reads next, if the file holds one.
ScanHasLine(k) == tasks[k].pos < Len(fsLines[tasks[k].fp])
ScanLine(k) == fsLines[tasks[k].fp][tasks[k].pos + 1]

\* One iteration of recoverState's loop over a line JSON.parse accepts.
RecLine(k) ==
    /\ k \in DOMAIN tasks
    /\ tasks[k].kind = "rec"
    /\ ScanHasLine(k)
    /\ ScanLine(k).t # "bad"
    /\ LET ln == ScanLine(k)
       IN  IF ln.t = "header"
           THEN /\ lastHash' = sha(ln.raw)
                /\ leafs' = leafs
           ELSE /\ leafs' = Append(leafs, ln.raw)
                /\ lastHash' = IF ln.lineHash # Null THEN ln.lineHash
                               ELSE sha(lastHash \o ln.raw)
    /\ tasks' = [tasks EXCEPT ![k].pos = @ + 1]
    /\ UNCHANGED <<fsLines, fsExists, fsFrag, today, day, calls,
                   nAppends, sinceOpen>>
    /\ UNCHANGED outsideStore

\* JSON.parse throws on the line read (a bad line, or the partial line at the
\* end of the file): recoverState's promise rejects and the scan is over.
RecThrow(k) ==
    /\ k \in DOMAIN tasks
    /\ tasks[k].kind = "rec"
    /\ \/ ScanHasLine(k) /\ ScanLine(k).t = "bad"
       \/ ~ScanHasLine(k) /\ fsFrag[tasks[k].fp]
    /\ tasks' = RemoveAt(tasks, k)
    /\ UNCHANGED <<fsLines, fsExists, fsFrag, today, day, lastHash, leafs, calls,
                   nAppends, sinceOpen>>
    /\ UNCHANGED outsideStore

\* End of file: if (!this.lastHash) await this.ensureHeader(fp).
RecEof(k) ==
    /\ k \in DOMAIN tasks
    /\ tasks[k].kind = "rec"
    /\ ~ScanHasLine(k) /\ ~fsFrag[tasks[k].fp]
    /\ tasks' = IF lastHash = Null
                THEN [tasks EXCEPT ![k] = [kind |-> "eh", fp |-> @.fp, pc |-> "stat", pos |-> 0]]
                ELSE RemoveAt(tasks, k)
    /\ UNCHANGED <<fsLines, fsExists, fsFrag, today, day, lastHash, leafs, calls,
                   nAppends, sinceOpen>>
    /\ UNCHANGED outsideStore

\* append(line) up to its await: rotateIfNeeded, rawBase, lineHash, the
\* chained line, and the write is issued.
AppendBegin(c, r) ==
    /\ calls[c].pc = "idle"
    /\ \A x \in Callers : x < c => calls[x].pc # "idle"
    /\ nAppends < MaxAppends
    /\ LET rot == today # day
           lh == IF rot THEN Null ELSE lastHash
       IN  /\ day' = today
           /\ lastHash' = lh
           /\ leafs' = IF rot THEN <<>> ELSE leafs
           /\ tasks' = IF rot THEN tasks \o Spawn(today, fsExists[today]) ELSE tasks
           /\ calls' = [calls EXCEPT ![c] =
                  [pc |-> "writing", fp |-> today, line |-> Chained(r, lh),
                   first |-> sinceOpen = 0,
                   want |-> ValidLast(fsLines[today], Len(fsLines[today]))]]
    /\ nAppends' = nAppends + 1
    /\ sinceOpen' = sinceOpen + 1
    /\ UNCHANGED <<fsLines, fsExists, fsFrag, today>>
    /\ UNCHANGED outsideStore

\* The chained line reaches the file.
AppendLand(c) ==
    /\ calls[c].pc = "writing"
    /\ Land(calls[c].fp, calls[c].line)
    /\ calls' = [calls EXCEPT ![c].pc = "landed"]
    /\ UNCHANGED <<today, day, lastHash, leafs, tasks, nAppends, sinceOpen>>
    /\ UNCHANGED outsideStore

\* append resumes after the write: this.lastHash = lineHash; leafs.push.
AppendResume(c) ==
    /\ calls[c].pc = "landed"
    /\ lastHash' = calls[c].line.lineHash
    /\ leafs' = Append(leafs, calls[c].line.raw)
    /\ calls' = [calls EXCEPT ![c] = IdleCall]
    /\ UNCHANGED <<fsLines, fsExists, fsFrag, today, day, tasks,
                   nAppends, sinceOpen>>
    /\ UNCHANGED outsideStore

\* Midnight UTC passes.
DayChange ==
    /\ today + 1 \in Days
    /\ today' = today + 1
    /\ UNCHANGED <<fsLines, fsExists, fsFrag, day, lastHash, leafs, tasks, calls,
                   nAppends, sinceOpen>>
    /\ UNCHANGED outsideStore

\* The files with a write issued and not yet landed.
InFlightFiles ==
    {calls[c].fp : c \in {x \in Callers : calls[x].pc = "writing"}}
    \cup {tasks[k].fp : k \in {x \in 1..Len(tasks) :
                                 tasks[x].kind = "eh" /\ tasks[x].pc = "writing"}}

\* The process dies and is started again (new ProofStore(dir)).  Writes in
\* flight are lost; with cut # 0 one of them had reached the file of day cut
\* in part, which leaves that file truncated in the middle of a line.
CrashReopen(cut) ==
    /\ cut = 0 \/ cut \in InFlightFiles
    /\ fsFrag' = IF cut = 0 THEN fsFrag ELSE [fsFrag EXCEPT ![cut] = TRUE]
    /\ fsExists' = IF cut = 0 THEN fsExists ELSE [fsExists EXCEPT ![cut] = TRUE]
    /\ day' = today
    /\ lastHash' = Null
    /\ leafs' = <<>>
    /\ tasks' = Spawn(today, fsExists'[today])
    /\ calls' = [c \in Callers |-> IdleCall]
    /\ sinceOpen' = 0
    /\ UNCHANGED <<fsLines, today, nAppends>>
    /\ UNCHANGED outsideStore

\* currentRoot(): nodes = leafs.map(h); a level pairs neighbours and carries
\* an unpaired last node up unchanged.
RECURSIVE ChainLevelFrom(_, _)
ChainLevelFrom(nodes, i) ==
    IF i > Len(nodes) THEN <<>>
    ELSE IF i + 1 <= Len(nodes)
         THEN <<sha(nodes[i] \o nodes[i + 1])>> \o ChainLevelFrom(nodes, i + 2)
         ELSE <<nodes[i]>>

RECURSIVE ChainReduce(_)
ChainReduce(nodes) ==
    IF Len(nodes) > 1 THEN ChainReduce(ChainLevelFrom(nodes, 1)) ELSE nodes[1]

\* The leaf hashes currentRoot() starts from.
LeafNodes(lf) == [i \in 1..Len(lf) |-> sha(lf[i])]

\* ProofStore.currentRoot() of the hash-chained store: leafCount and
\* merkleRoot (null for no leaves).
currentRoot(lf) ==
    [leafCount |-> Len(lf),
     merkleRoot |-> IF Len(lf) = 0 THEN Null ELSE ChainReduce(LeafNodes(lf))]

\* ------------------------------------------------------------ append queue
Inst == {1, 2}          \* two service instances share one Redis
EventIds == {1, 2}
FreeLease == 0          \* the lease key is absent
DeadHolder == -1        \* the lease of a process that has died

\* IdLRU.has(id)
LruHas(m, id) == id \in Range(m)

\* An add that moved a key it already holds to the newest place.
IdLruAddRefresh(m, id, max) ==
    LET m1 == SelectSeq(m, LAMBDA x : x # id) \o <<id>>
    IN  IF Len(m1) > max THEN Tail(m1) ELSE m1

\* IdLRU.add(id) of a cache of size max: map.set keeps the place of a key it
\* already holds; above max the first key is deleted.
IdLruAdd(m, id, max) ==
    LET m1 == IF id \in Range(m) THEN m ELSE Append(m, id)
    IN  IF Len(m1) > max THEN Tail(m1) ELSE m1

\* IdLRU.add(id) of the queue's cache.
LruAdd(m, id) == IdLruAdd(m, id, LruMax)

\* The key LruAdd(m, id) deletes, as a set.
LruEvicted(m, id) == Range(m) \ Range(LruAdd(m, id))

\* How many lines of the file carry eventId e.
RECURSIVE CountLines(_, _)
CountLines(f, e) ==
    IF f = <<>> THEN 0
    ELSE (IF Head(f).eventId = e THEN 1 ELSE 0) + CountLines(Tail(f), e)

RECURSIVE CountIn(_, _)
CountIn(q, e) ==
    IF q = <<>> THEN 0 ELSE (IF Head(q) = e THEN 1 ELSE 0) + CountIn(Tail(q), e)

RECURSIVE SumOver(_, _)
SumOver(f, S) ==
    IF S = {} THEN 0
    ELSE LET x == CHOOSE y \in S : TRUE IN f[x] + SumOver(f, S \ {x})

TotalEnq == SumOver(nEnq, EventIds)

QueueInit ==
    /\ qRedis = <<>>
    /\ qFile = <<>>
    /\ lease = FreeLease
    /\ isLeader = [i \in Inst |-> FALSE]
    /\ lru = [i \in Inst |-> <<>>]
    /\ lpc = [i \in Inst |-> "init"]
    /\ item = [i \in Inst |-> 0]
    /\ stopped = [i \in Inst |-> FALSE]
    /\ errors = [i \in Inst |-> 0]
    /\ nEnq = [e \in EventIds |-> 0]
    /\ lost = [i \in Inst |-> FALSE]
    /\ race = [callers |-> {}, winners |-> {}]
    /\ lostItems = {}
    /\ evictions = {}

\* ---- LeaderElector (util/leader.js): a lease keyed by a fixed name.
\* The store's answer to acquire() by i: granted if no other holder has a
\* live lease.
LeaseGrantedAlways(i) == TRUE

LeaseGranted(i) == lease \in {FreeLease, i}

\* acquire(): the store answers one call at a time.
Acquire(i) ==
    /\ lease' = IF LeaseGranted(i) THEN i ELSE lease
    /\ isLeader' = [isLeader EXCEPT ![i] = LeaseGranted(i)]
    /\ lost' = IF LeaseGranted(i) THEN [lost EXCEPT ![i] = FALSE] ELSE lost
    /\ race' = [callers |-> race.callers \cup {i},
                winners |-> race.winners \cup (IF LeaseGranted(i) THEN {i} ELSE {})]

\* The lease leaves the store (it expired, or its holder released it).
LeaseFreed ==
    /\ lease' = FreeLease
    /\ lost' = [i \in Inst |-> lost[i] \/ lease = i]
    /\ race' = [callers |-> {}, winners |-> {}]

\* AppendQueue.init(): await elector.start(); startDrainLoop().
QInit(i) ==
    /\ lpc[i] = "init"
    /\ Acquire(i)
    /\ lpc' = [lpc EXCEPT ![i] = "idle"]
    /\ UNCHANGED <<qRedis, qFile, lru, item, stopped, errors, nEnq,
                   lostItems, evictions>>
    /\ UNCHANGED outsideQueue

\* A running instance that is not leader polls the lease.
Poll(i) ==
    /\ lpc[i] # "init" /\ ~stopped[i] /\ ~isLeader[i]
    /\ Acquire(i)
    /\ UNCHANGED <<qRedis, qFile, lru, lpc, item, stopped, errors, nEnq,
                   lostItems, evictions>>
    /\ UNCHANGED outsideQueue

\* Background renewal by the holder: it finds its lease gone, or cannot reach
\* the store, and demotes itself at once.
RenewFails(i) ==
    /\ lpc[i] # "init" /\ ~stopped[i] /\ isLeader[i]
    /\ isLeader' = [isLeader EXCEPT ![i] = FALSE]
    /\ UNCHANGED <<qRedis, qFile, lease, lru, lpc, item, stopped, errors, nEnq, lost, race, lostItems, evictions>>
    /\ UNCHANGED outsideQueue

\* The TTL of the lease runs out before its holder renewed it.
Expire ==
    /\ lease # FreeLease
    /\ LeaseFreed
    /\ UNCHANGED <<qRedis, qFile, isLeader, lru, lpc, item, stopped, errors, nEnq, lostItems, evictions>>
    /\ UNCHANGED outsideQueue

\* ---- AppendQueue
\* An enqueue that pushed at the head of the list (lpush).
EnqueueAtHead(e) ==
    /\ TotalEnq < MaxEnq
    /\ qRedis' = <<e>> \o qRedis
    /\ nEnq' = [nEnq EXCEPT ![e] = @ + 1]
    /\ UNCHANGED <<qFile, lease, isLeader, lru, lpc, item, stopped, errors, lost, race, lostItems, evictions>>
    /\ UNCHANGED outsideQueue

\* enqueue(file, line, eventId) with Redis: rpush.
Enqueue(e) ==
    /\ TotalEnq < MaxEnq
    /\ qRedis' = Append(qRedis, e)
    /\ nEnq' = [nEnq EXCEPT ![e] = @ + 1]
    /\ UNCHANGED <<qFile, lease, isLeader, lru, lpc, item, stopped, errors, lost, race, lostItems, evictions>>
    /\ UNCHANGED outsideQueue

\* Producers enqueue one item per eventId, for one file, in the order of the
\* ids: the id of a line tells its place in the order of enqueueing.
EnqueueInOrder ==
    /\ TotalEnq + 1 \in EventIds
    /\ Enqueue(TotalEnq + 1)

\* The leadership test that opens an iteration of the drain loop.
SeesLeaderAlways(i) == TRUE

\* A loop that went by the outcome of its last acquire() instead.
SeesLeaderCached(i) == i \in race.winners

SeesLeader(i) == isLeader[i]

\* An iteration starts: isLeader is read; a leader issues blpop, any other
\* instance ends the iteration at once.
LoopStart(i) ==
    /\ lpc[i] = "idle"
    /\ lpc' = [lpc EXCEPT ![i] = IF SeesLeader(i) THEN "blpop" ELSE "idle"]
    /\ UNCHANGED <<qRedis, qFile, lease, isLeader, lru, item, stopped, errors, nEnq, lost, race, lostItems, evictions>>
    /\ UNCHANGED outsideQueue

\* The idempotency test on the popped item.
IsDuplicateNever(i, e) == FALSE

IsDuplicate(i, e) == LruHas(lru[i], e)

\* blpop answers: with nothing after a second, or with the head of the list,
\* which is parsed and looked up; a known id is dropped and counted, a new one
\* goes to mkdir and appendFile.
Blpop(i) ==
    /\ lpc[i] = "blpop"
    /\ IF qRedis = <<>>
       THEN /\ lpc' = [lpc EXCEPT ![i] = "idle"]
            /\ UNCHANGED <<qRedis, item>>
       ELSE /\ qRedis' = Tail(qRedis)
            /\ IF IsDuplicate(i, Head(qRedis))
               THEN /\ lpc' = [lpc EXCEPT ![i] = "idle"]
                    /\ item' = item
               ELSE /\ lpc' = [lpc EXCEPT ![i] = "writing"]
                    /\ item' = [item EXCEPT ![i] = Head(qRedis)]
    /\ UNCHANGED <<qFile, lease, isLeader, lru, stopped, errors, nEnq,
                   lost, race, lostItems, evictions>>
    /\ UNCHANGED outsideQueue

\* appendFile succeeds: the line is in the file, then lru.add(eventId).
WriteDone(i) ==
    /\ lpc[i] = "writing"
    /\ qFile' = Append(qFile, [eventId |-> item[i], by |-> i])
    /\ lru' = [lru EXCEPT ![i] = LruAdd(@, item[i])]
    /\ evictions' = evictions \cup {<<i, e>> : e \in LruEvicted(lru[i], item[i])}
    /\ lpc' = [lpc EXCEPT ![i] = "idle"]
    /\ item' = [item EXCEPT ![i] = 0]
    /\ UNCHANGED <<qRedis, lease, isLeader, stopped, errors, nEnq,
                   lost, race, lostItems>>
    /\ UNCHANGED outsideQueue

\* A drain loop that put a failed item back on the list.
WriteFailsRequeue(i) ==
    /\ lpc[i] = "writing"
    /\ errors' = [errors EXCEPT ![i] = @ + 1]
    /\ qRedis' = Append(qRedis, item[i])
    /\ lpc' = [lpc EXCEPT ![i] = "idle"]
    /\ item' = [item EXCEPT ![i] = 0]
    /\ UNCHANGED <<qFile, lease, isLeader, lru, stopped, nEnq,
                   lost, race, lostItems, evictions>>
    /\ UNCHANGED outsideQueue

\* A drain loop without its finally block: after a failed write no further
\* iteration is scheduled.
WriteFailsEndsLoop(i) ==
    /\ lpc[i] = "writing"
    /\ errors' = [errors EXCEPT ![i] = @ + 1]
    /\ lostItems' = lostItems \cup {item[i]}
    /\ lpc' = [lpc EXCEPT ![i] = "ended"]
    /\ item' = [item EXCEPT ![i] = 0]
    /\ UNCHANGED <<qRedis, qFile, lease, isLeader, lru, stopped, nEnq,
                   lost, race, evictions>>
    /\ UNCHANGED outsideQueue

\* mkdir or appendFile throws: catch counts the error, the item is gone.
WriteFails(i) ==
    /\ lpc[i] = "writing"
    /\ errors' = [errors EXCEPT ![i] = @ + 1]
    /\ lostItems' = lostItems \cup {item[i]}
    /\ lpc' = [lpc EXCEPT ![i] = "idle"]
    /\ item' = [item EXCEPT ![i] = 0]
    /\ UNCHANGED <<qRedis, qFile, lease, isLeader, lru, stopped, nEnq,
                   lost, race, evictions>>
    /\ UNCHANGED outsideQueue

\* close(): clearTimeout(drainTimer), then elector.stop() gives the lease up.
\* An iteration in flight is not waited for.
Close(i) ==
    /\ lpc[i] # "init" /\ ~stopped[i]
    /\ stopped' = [stopped EXCEPT ![i] = TRUE]
    /\ isLeader' = [isLeader EXCEPT ![i] = FALSE]
    /\ IF lease = i
       THEN LeaseFreed
       ELSE UNCHANGED <<lease, lost, race>>
    /\ UNCHANGED <<qRedis, qFile, lru, lpc, item, errors, nEnq,
                   lostItems, evictions>>
    /\ UNCHANGED outsideQueue

\* The process of an instance dies and is started again: a new AppendQueue
\* with an empty IdLRU; the lease it held stays in the store, as that of a
\* dead process, until it expires.  The lines it wrote are from now on those
\* of a former process (by = 0).
Restart(i) ==
    /\ lru' = [lru EXCEPT ![i] = <<>>]
    /\ lpc' = [lpc EXCEPT ![i] = "init"]
    /\ item' = [item EXCEPT ![i] = 0]
    /\ isLeader' = [isLeader EXCEPT ![i] = FALSE]
    /\ stopped' = [stopped EXCEPT ![i] = FALSE]
    /\ errors' = [errors EXCEPT ![i] = 0]
    /\ lease' = IF lease = i THEN DeadHolder ELSE lease
    /\ qFile' = [k \in DOMAIN qFile |->
                    IF qFile[k].by = i THEN [qFile[k] EXCEPT !.by = 0] ELSE qFile[k]]
    /\ lostItems' = lostItems \cup ({item[i]} \ {0})
    /\ evictions' = {p \in evictions : p[1] # i}
    /\ UNCHANGED <<qRedis, nEnq, lost, race>>
    /\ UNCHANGED outsideQueue

\* ------------------------------------------- append queue, fallback mode
IdleEnqueue == [pc |-> "idle", eventId |-> 0]

FallbackInit ==
    /\ fbLru = <<>>
    /\ fbFile = <<>>
    /\ fbCalls = [c \in Callers |-> IdleEnqueue]
    /\ fbCount = 0
    /\ fbEvicted = {}

\* The guard of the fallback branch of enqueue: this.lru.has(eventId).
FbKnown(e) == LruHas(fbLru, e)

\* enqueue(file, line, eventId) without Redis, up to its await: a known id
\* returns at once, a new one issues appendFile.
FbBegin(c, e) ==
    /\ fbCalls[c].pc = "idle"
    /\ fbCount < MaxEnq
    /\ fbCount' = fbCount + 1
    /\ fbCalls' = IF FbKnown(e) THEN fbCalls
                  ELSE [fbCalls EXCEPT ![c] = [pc |-> "writing", eventId |-> e]]
    /\ UNCHANGED <<fbLru, fbFile, fbEvicted>>
    /\ UNCHANGED outsideFallback

\* The line reaches the file.
FbLand(c) ==
    /\ fbCalls[c].pc = "writing"
    /\ fbFile' = Append(fbFile, fbCalls[c].eventId)
    /\ fbCalls' = [fbCalls EXCEPT ![c].pc = "landed"]
    /\ UNCHANGED <<fbLru, fbCount, fbEvicted>>
    /\ UNCHANGED outsideFallback

\* enqueue resumes after the write: this.lru.add(eventId).
FbResume(c) ==
    /\ fbCalls[c].pc = "landed"
    /\ fbLru' = LruAdd(fbLru, fbCalls[c].eventId)
    /\ fbEvicted' = fbEvicted \cup LruEvicted(fbLru, fbCalls[c].eventId)
    /\ fbCalls' = [fbCalls EXCEPT ![c] = IdleEnqueue]
    /\ UNCHANGED <<fbFile, fbCount>>
    /\ UNCHANGED outsideFallback

\* appendFile throws: enqueue rejects, the cache is not touched.
FbFails(c) ==
    /\ fbCalls[c].pc = "writing"
    /\ fbCalls' = [fbCalls EXCEPT ![c] = IdleEnqueue]
    /\ UNCHANGED <<fbLru, fbFile, fbCount, fbEvicted>>
    /\ UNCHANGED outsideFallback

\* -------------------------------------------------------------- nonce store
Keys == {1, 2, 3}
NonceModes == {"mem", "trim", "redis", "file"}

NonceInit ==
    /\ nsMode \in NonceModes
    /\ nsMem = <<>>
    /\ nsRedis = [k \in Keys |-> 0]
    /\ nsFiles = {}
    /\ nsTimers = {}
    /\ nsNow = 0
    /\ nsAdmitted = [k \in Keys |-> -1]
    /\ nsLast = [key |-> 0, at |-> 0, ok |-> FALSE, prev |-> -1]

NonceIdle ==
    /\ nsMode = "mem"
    /\ nsMem = <<>>
    /\ nsRedis = [k \in Keys |-> 0]
    /\ nsFiles = {}
    /\ nsTimers = {}
    /\ nsNow = 0
    /\ nsAdmitted = [k \in Keys |-> -1]
    /\ nsLast = [key |-> 0, at |-> 0, ok |-> FALSE, prev |-> -1]

\* mem.has(key) / mem.get(key)
MemHas(m, k) == \E x \in DOMAIN m : m[x].key = k
MemGet(m, k) == m[CHOOSE x \in DOMAIN m : m[x].key = k].exp

\* mem.set(key, exp): a key the Map holds keeps its place.
MemSet(m, k, v) ==
    IF MemHas(m, k)
    THEN [x \in DOMAIN m |-> IF m[x].key = k THEN [key |-> k, exp |-> v] ELSE m[x]]
    ELSE Append(m, [key |-> k, exp |-> v])

\* mem.delete(key)
RECURSIVE MemDelete(_, _)
MemDelete(m, k) ==
    IF m = <<>> THEN <<>>
    ELSE IF Head(m).key = k THEN MemDelete(Tail(m), k)
    ELSE <<Head(m)>> \o MemDelete(Tail(m), k)

\* At MEM_MAX entries the oldest go: the first key, or in the second
\* implementation the first ceil(MEM_MAX * 0.1) keys.
MemTrim(m, mode) ==
    IF Len(m) >= MemMax
    THEN LET n == IF mode = "trim" THEN (MemMax + 9) \div 10 ELSE 1
             d == IF n > Len(m) THEN Len(m) ELSE n
         IN  SubSeq(m, d + 1, Len(m))
    ELSE m

\* Whether the backend holds the key as used and not expired.
NonceSeen(k) ==
    CASE nsMode \in {"mem", "trim"} -> MemHas(nsMem, k) /\ MemGet(nsMem, k) > nsNow
      [] nsMode = "redis" -> nsRedis[k] > nsNow
      [] OTHER -> k \in nsFiles

\* checkAndSetNonce(nonce, ttlSec) / nonceCheckAndSet(key, ttlSec): what the
\* call does to the store.
NonceCall(k) ==
    /\ nsLast' = [key |-> k, at |-> nsNow, ok |-> ~NonceSeen(k), prev |-> nsAdmitted[k]]
    /\ IF NonceSeen(k)
       THEN UNCHANGED <<nsMem, nsRedis, nsFiles, nsTimers, nsAdmitted>>
       ELSE /\ nsAdmitted' = [nsAdmitted EXCEPT ![k] = nsNow]
            /\ nsMem' = IF nsMode \in {"mem", "trim"}
                        THEN MemSet(MemTrim(nsMem, nsMode), k, nsNow + NonceTtl)
                        ELSE nsMem
            /\ nsRedis' = IF nsMode = "redis"
                          THEN [nsRedis EXCEPT ![k] = nsNow + NonceTtl]
                          ELSE nsRedis
            /\ nsFiles' = IF nsMode = "file" THEN nsFiles \cup {k} ELSE nsFiles
            /\ nsTimers' = IF nsMode = "redis" THEN nsTimers
                           ELSE nsTimers \cup {[key |-> k, at |-> nsNow + NonceTtl]}
    /\ UNCHANGED <<nsMode, nsNow>>

\* A caller other than requireHmac makes the call.
CheckAndSetNonce(k) ==
    /\ NonceCall(k)
    /\ UNCHANGED outsideNonce

\* A setTimeout callback runs, at its time or later: mem.delete(key), or
\* unlinkSync of the key's file.
TimerFires(t) ==
    /\ t \in nsTimers
    /\ t.at <= nsNow
    /\ nsTimers' = nsTimers \ {t}
    /\ nsMem' = MemDelete(nsMem, t.key)
    /\ nsFiles' = nsFiles \ {t.key}
    /\ UNCHANGED <<nsMode, nsRedis, nsNow, nsAdmitted, nsLast>>
    /\ UNCHANGED outsideNonce

\* Time passes.
Tick ==
    /\ nsNow < MaxNow
    /\ nsNow' = nsNow + 1
    /\ UNCHANGED <<nsMode, nsMem, nsRedis, nsFiles, nsTimers, nsAdmitted, nsLast>>
    /\ UNCHANGED outsideNonce

\* ------------------------------------------------ requireHmac (mw/requireHmac.ts)
\* A request: the x-key-id header, x-nonce (0: absent), whether x-ts is
\* there, and x-signature-256: the HMAC of some secret over a canonical
\* string, or nothing.  Method, path, body and the value of x-ts are the same
\* in every request, so the canonical string comes down to the nonce.
KeyIds == {"default", "nobody"}
Secrets == {"shared", "guess"}
Nonces == {1, 2}
NoSig == [secret |-> "", nonce |-> 0]

\* hmac256(key, canon)
hmac256(key, nonce) == [secret |-> key, nonce |-> nonce]

Requests ==
    [keyId : KeyIds, nonce : {0} \cup Nonces, ts : BOOLEAN,
     sig : {NoSig} \cup {hmac256(k, n) : k \in Secrets, n \in Nonces}]

\* keyMap.get(keyId): "" for undefined.
KeyMapGet(keyId) == IF keyId = "default" THEN "shared" ELSE ""

\* The answers that end a request before the nonce check.
EarlyRejects == {"missing", "unknown-key", "bad-signature"}

\* What the checks before the nonce check answer: "pass" when all three let
\* the request through.
Checked(req) ==
    IF req.sig = NoSig \/ req.nonce = 0 \/ ~req.ts THEN "missing"
    ELSE IF KeyMapGet(req.keyId) = "" THEN "unknown-key"
    ELSE IF hmac256(KeyMapGet(req.keyId), req.nonce) # req.sig THEN "bad-signature"
    ELSE "pass"

HmacInit ==
    /\ hmLast = [n |-> 0, nonce |-> 0, res |-> "none"]
    /\ hmTried = {}

\* A middleware that checked the nonce as soon as the key was known, before
\* it verified the signature.
RequireHmacNonceFirst(req) ==
    LET early == IF req.sig = NoSig \/ req.nonce = 0 \/ ~req.ts THEN "missing"
                 ELSE IF KeyMapGet(req.keyId) = "" THEN "unknown-key"
                 ELSE "pass"
    IN  /\ hmLast.n < MaxReqs
        /\ IF early = "pass"
           THEN /\ NonceCall(req.nonce)
                /\ hmLast' = [n |-> hmLast.n + 1, nonce |-> req.nonce,
                              res |-> IF NonceSeen(req.nonce) THEN "replay"
                                      ELSE IF Checked(req) = "pass" THEN "next"
                                      ELSE Checked(req)]
           ELSE /\ hmLast' = [n |-> hmLast.n + 1, nonce |-> req.nonce, res |-> early]
                /\ UNCHANGED nonceVars
        /\ hmTried' = IF hmLast'.res \in EarlyRejects /\ req.nonce # 0
                      THEN hmTried \cup {req.nonce} ELSE hmTried
        /\ UNCHANGED outsideHmac

\* The middleware on one request: missing headers, unknown key and bad
\* signature answer 401 and return; only then checkAndSetNonce is called, with
\* keyId:nonce, and its answer decides between 401 replay and next().
RequireHmac(req) ==
    /\ hmLast.n < MaxReqs
    /\ IF Checked(req) = "pass"
       THEN /\ NonceCall(req.nonce)
            /\ hmLast' = [n |-> hmLast.n + 1, nonce |-> req.nonce,
                          res |-> IF NonceSeen(req.nonce) THEN "replay" ELSE "next"]
       ELSE /\ hmLast' = [n |-> hmLast.n + 1, nonce |-> req.nonce, res |-> Checked(req)]
            /\ UNCHANGED nonceVars
    /\ hmTried' = IF Checked(req) \in EarlyRejects /\ req.nonce # 0
                  THEN hmTried \cup {req.nonce} ELSE hmTried
    /\ UNCHANGED outsideHmac

\* ---------------------------------------------- index-backed store (part_013)
\* The second ProofStore: a write stream per day file, leaves kept in memory
\* and mirrored to an index file every FlushEvery leaves.
RecSize == 1            \* Buffer.byteLength(json): every line has one size

IxResults == {"none", "ok", "threw", "failed"}
\* Proof captures (append) and corrections (appendAny) arrive in turn.
TypeOf(r) == IF r % 2 = 1 THEN "pc" ELSE "px"

\* The object as appendAny receives it: no chain metadata is added.
IxLine(r, t) == [r |-> r, t |-> t, prevHash |-> Null, lineHash |-> Null]

\* JSON.stringify(obj) + "\n"
IxJson(ln) == <<ln.r, IF ln.t = "pc" THEN 1 ELSE 2>>

\* leaf = sha256Buf(json)
IxLeaf(ln) == sha256Buf(IxJson(ln))

NoIndex == [exists |-> FALSE, leaves |-> <<>>]
NoRootFile == [exists |-> FALSE, leafCount |-> 0, merkleRoot |-> <<>>]
NotFound == [found |-> FALSE, branch |-> <<>>, root |-> <<>>]

\* leafHexes = this.leaves.map(buf => "0x" + buf.toString("hex"))
LeafHexes(lv) == [i \in 1..Len(lv) |-> ToHex(lv[i])]

\* Buffer.from(hx.slice(2), "hex") for every entry of an index file
LeafBufs(hx) == [i \in 1..Len(hx) |-> FromHex(hx[i])]

\* The index file written from the leaves as they were before the last push.
IndexBeforePush(lv) == [exists |-> TRUE, leaves |-> LeafHexes(SubSeq(lv, 1, Len(lv) - 1))]

\* The index file flushRootAndIndex writes for the leaves lv.
IndexOf(lv) == [exists |-> TRUE, leaves |-> LeafHexes(lv)]

\* The root file flushRootAndIndex writes for the leaves lv.
RootFileOf(lv) ==
    [exists |-> TRUE, leafCount |-> Len(lv), merkleRoot |-> ToHex(merkleRoot(lv))]

\* The longest prefix of lv, longer than n leaves, whose length is a multiple
\* of FlushEvery: the leaves of the last flush while lv grew from n leaves,
\* 0 if there was none.
LastFlush(n, lv) ==
    LET at == {k \in (n + 1)..Len(lv) : k % FlushEvery = 0}
    IN  IF at = {} THEN 0 ELSE CHOOSE k \in at : \A j \in at : j <= k

\* createWriteStream(f, { flags }): what opening leaves of the file.
OpenedTruncating(f) == <<>>

OpenedForAppend(f) == f

\* openWriter(dayKey): the stream, bytes from statSync, leaves from the index
\* file if there is one.
OpenedLeaves(idx) == IF idx.exists THEN LeafBufs(idx.leaves) ELSE <<>>

\* currentRoot() of this store.
ixCurrentRoot ==
    [day |-> ixWriter.dayKey, leafCount |-> Len(ixLeaves),
     merkleRoot |-> ToHex(merkleRoot(ixLeaves))]

\* index < 0 || index >= bufs.length, negated, off by one at the low end.
InRangeFromOne(index, n) == index > 0 /\ index < n

\* index < 0 || index >= bufs.length, negated.
InRange(index, n) == ~(index < 0 \/ index >= n)

\* getPath(dayKey, index)
getPath(d, index) ==
    IF ~ixIndex[d].exists THEN NotFound
    ELSE LET bufs == LeafBufs(ixIndex[d].leaves)
         IN  IF ~InRange(index, Len(bufs)) THEN NotFound
             ELSE [found |-> TRUE, branch |-> merklePath(bufs, index),
                   root |-> ToHex(merkleRoot(bufs))]

IxInit ==
    /\ ixFiles = [d \in Days |-> <<>>]
    /\ ixIndex = [d \in Days |-> NoIndex]
    /\ ixRootFile = [d \in Days |-> NoRootFile]
    /\ ixWriter = [dayKey |-> 1, bytes |-> 0]
    /\ ixBuf = <<>>
    /\ ixWaiters = <<>>
    /\ ixLeaves = <<>>
    /\ ixRes = [r \in 1..MaxIxAppends |-> "none"]
    /\ ixCount = 0
    /\ ixBroken = FALSE
    /\ ixToday = 1
    /\ ixFailed = {}
    /\ ixRotated = {}
    /\ ixQuery = [asked |-> FALSE, day |-> 1, index |-> 0, hadIndex |-> FALSE,
                  count |-> 0, res |-> NotFound]

\* rotateIfNeeded(ts): needDayRotate || needSizeRotate
NeedsRotate(ts) == ixWriter.dayKey # ts \/ ixWriter.bytes >= MaxBytes

\* The leaves after the records rs (in this order) resumed: leaves.push for
\* each, flushRootAndIndex whenever the length is a multiple of FlushEvery.
RECURSIVE LinesLeaves(_)
LinesLeaves(lns) ==
    IF lns = <<>> THEN <<>> ELSE <<IxLeaf(Head(lns))>> \o LinesLeaves(Tail(lns))

\* leaves.push(leaf) for the lines lns, with the flushes on the way.
PushLeaves(lns) ==
    LET lv == ixLeaves \o LinesLeaves(lns)
        k == LastFlush(Len(ixLeaves), lv)
        d == ixWriter.dayKey
    IN  /\ ixLeaves' = lv
        /\ ixIndex' = IF k = 0 THEN ixIndex
                      ELSE [ixIndex EXCEPT ![d] = IndexOf(SubSeq(lv, 1, k))]
        /\ ixRootFile' = IF k = 0 THEN ixRootFile
                         ELSE [ixRootFile EXCEPT ![d] = RootFileOf(SubSeq(lv, 1, k))]

\* append(line) / appendAny(obj) -> _appendJsonLineAndHash, up to its await.
\* ts is the record's createdAt, which the callers set to Date.now().
\* A needed rotation calls this.closeWriter(), which the class does not
\* define: the call throws a TypeError and nothing else happens.  Otherwise
\* the line goes to the stream, bytes grows, and either the leaf is pushed at
\* once or the call waits for "drain".
IxAppend(t) ==
    /\ ixCount < MaxIxAppends
    /\ ~ixBroken
    /\ LET r == ixCount + 1
           ln == IxLine(r, t)
       IN  /\ ixCount' = r
           /\ IF NeedsRotate(ixToday)
              THEN /\ ixRes' = [ixRes EXCEPT ![r] = "threw"]
                   /\ ixRotated' = ixRotated \cup
                         {[r |-> r, closing |-> ixWriter.dayKey, leaves |-> ixLeaves,
                           to |-> ixToday]}
                   /\ UNCHANGED <<ixWriter, ixBuf, ixWaiters, ixLeaves, ixIndex,
                                  ixRootFile>>
              ELSE /\ ixBuf' = Append(ixBuf, ln)
                   /\ ixWriter' = [ixWriter EXCEPT !.bytes = @ + RecSize]
                   /\ ixRotated' = ixRotated
                   /\ IF Len(ixBuf) + 1 < Hwm
                      THEN /\ PushLeaves(<<ln>>)
                           /\ ixRes' = [ixRes EXCEPT ![r] = "ok"]
                           /\ ixWaiters' = ixWaiters
                      ELSE /\ ixWaiters' = Append(ixWaiters, ln)
                           /\ UNCHANGED <<ixLeaves, ixIndex, ixRootFile, ixRes>>
    /\ UNCHANGED <<ixFiles, ixBroken, ixToday, ixFailed, ixQuery>>
    /\ UNCHANGED outsideIx

\* The stream writes its oldest chunk to the file.  When that empties the
\* buffer "drain" is emitted and the waiting calls resume in the order they
\* began to wait.
IxFlush ==
    /\ ixBuf # <<>>
    /\ ~ixBroken
    /\ ixFiles' = [ixFiles EXCEPT ![ixWriter.dayKey] = Append(@, Head(ixBuf))]
    /\ ixBuf' = Tail(ixBuf)
    /\ IF Tail(ixBuf) = <<>> /\ ixWaiters # <<>>
       THEN /\ PushLeaves(ixWaiters)
            /\ ixRes' = [r \in 1..MaxIxAppends |->
                            IF \E k \in DOMAIN ixWaiters : ixWaiters[k].r = r
                            THEN "ok" ELSE ixRes[r]]
            /\ ixWaiters' = <<>>
       ELSE UNCHANGED <<ixLeaves, ixIndex, ixRootFile, ixRes, ixWaiters>>
    /\ UNCHANGED <<ixWriter, ixCount, ixBroken, ixToday, ixFailed, ixRotated, ixQuery>>
    /\ UNCHANGED outsideIx

\* The write of the oldest chunk fails: the stream is destroyed with what it
\* had buffered and emits "error", which rejects the calls waiting for
\* "drain"; calls that had already resolved are not told.
IxWriteError ==
    /\ ixBuf # <<>>
    /\ ~ixBroken
    /\ ixBroken' = TRUE
    /\ ixFailed' = ixFailed \cup {ixBuf[k].r : k \in DOMAIN ixBuf}
    /\ ixBuf' = <<>>
    /\ ixRes' = [r \in 1..MaxIxAppends |->
                    IF \E k \in DOMAIN ixWaiters : ixWaiters[k].r = r
                    THEN "failed" ELSE ixRes[r]]
    /\ ixWaiters' = <<>>
    /\ UNCHANGED <<ixFiles, ixIndex, ixRootFile, ixWriter, ixLeaves, ixCount,
                   ixToday, ixRotated, ixQuery>>
    /\ UNCHANGED outsideIx

\* Midnight UTC passes.
IxDayChange ==
    /\ ixToday + 1 \in Days
    /\ ixToday' = ixToday + 1
    /\ UNCHANGED <<ixFiles, ixIndex, ixRootFile, ixWriter, ixBuf, ixWaiters, ixLeaves,
                   ixRes, ixCount, ixBroken, ixFailed, ixRotated, ixQuery>>
    /\ UNCHANGED outsideIx

\* The process ends and is started again: new ProofStore(dir) ->
\* rotateIfNeeded(Date.now()) -> openWriter.  What the old stream had
\* buffered is gone with the process.
IxReopen ==
    /\ ixFiles' = [ixFiles EXCEPT ![ixToday] = OpenedForAppend(@)]
    /\ ixWriter' = [dayKey |-> ixToday, bytes |-> Len(ixFiles[ixToday]) * RecSize]
    /\ ixLeaves' = OpenedLeaves(ixIndex[ixToday])
    /\ ixBuf' = <<>>
    /\ ixWaiters' = <<>>
    /\ ixBroken' = FALSE
    /\ UNCHANGED <<ixIndex, ixRootFile, ixRes, ixCount, ixToday, ixFailed, ixRotated,
                   ixQuery>>
    /\ UNCHANGED outsideIx

\* A caller asks getPath(d, index); what it found is kept with the answer.
IxGetPath(d, index) ==
    /\ ixQuery' = [asked |-> TRUE, day |-> d, index |-> index,
                   hadIndex |-> ixIndex[d].exists,
                   count |-> Len(ixIndex[d].leaves),
                   res |-> getPath(d, index)]
    /\ UNCHANGED <<ixFiles, ixIndex, ixRootFile, ixWriter, ixBuf, ixWaiters, ixLeaves,
                   ixRes, ixCount, ixBroken, ixToday, ixFailed, ixRotated>>
    /\ UNCHANGED outsideIx

\* ------------------------------- canonical serialization (util/canonical.ts)
\* A JavaScript value: k is its kind ("num", "big" for a bigint, "str",
\* "obj", "null", "nan" for the number NaN, "ref" for an object met again
\* inside itself), n the number or the character of a one-character string,
\* kids the members of an object in insertion order.  Key k stands for the
\* one-letter name with character code 97 + k, so that the order of the keys
\* is the order Array.prototype.sort gives their names.  Serialized bytes are
\* their UTF-8 codes.
Val(k, n, kids) == [k |-> k, n |-> n, kids |-> kids]

Algos == {"JCS", "CBOR", "SSZ"}

\* What stands for a thrown TypeError where bytes or a hash were expected.
Thrown == <<-1>>

\* Object.keys(o) without the sort: the members as inserted.
KidsAsInserted(kids) == kids

\* Object.keys(o).sort(): the members in the order of their names.
SortedKids(kids) ==
    LET n == Len(kids)
        p == CHOOSE q \in [1..n -> 1..n] :
                 \A i, j \in 1..n : i < j => kids[q[i]].key < kids[q[j]].key
    IN  [i \in 1..n |-> kids[p[i]]]

\* What stands for the RangeError of an exhausted call stack.
RangeErr == <<-4>>

\* The replacer of jcsStringify returns, for an object, a new object `out`:
\* one that is on no stack yet.  Objects are told apart by a number: an
\* input object by its nesting depth (positive), the copy made at stack
\* depth d by -(d + 1).
ReplacerKeeps(id, d) == id

ReplacerCopy(id, d) == 0 - (d + 1)

RECURSIVE jcsText(_, _, _)
RECURSIVE JcsMembers(_, _, _, _)
\* JSON.stringify of the members of the object the replacer returns.
JcsMembers(ks, i, anc, stack) ==
    IF i > Len(ks) THEN <<>>
    ELSE (IF i > 1 THEN <<44>> ELSE <<>>)
         \o <<34, 97 + ks[i].key, 34, 58>> \o jcsText(ks[i].val, anc, stack)
         \o JcsMembers(ks, i + 1, anc, stack)

\* JSON.stringify(value, replacer) at one property.  anc are the input
\* objects that enclose the value, outermost first; a "ref" of n is the n-th
\* enclosing object, counted from the innermost.  stack is the stack of
\* objects JSON.stringify is inside of.  The replacer rebuilds every object
\* with its keys sorted and JSON.stringify looks for the rebuilt object on its
\* stack (a TypeError if it is there); the engine throws a RangeError when
\* its call stack, of MaxStack nested objects, is used up.  A bigint makes
\* JSON.stringify throw a TypeError; null and a number that is not finite
\* are both written null.
jcsText(v, anc, stack) ==
    CASE v.k = "num" -> <<48 + v.n>>
      [] v.k = "str" -> <<34, 97 + v.n, 34>>
      [] v.k \in {"null", "nan"} -> <<110, 117, 108, 108>>
      [] v.k \in {"obj", "ref"} ->
            LET up == IF v.k = "ref" THEN SubSeq(anc, 1, Len(anc) - v.n) ELSE anc
                obj == IF v.k = "ref" THEN anc[Len(anc) - v.n + 1] ELSE v
                id == ReplacerCopy(Len(up) + 1, Len(stack))
            IN  IF id \in Range(stack) THEN Thrown
                ELSE IF Len(stack) >= MaxStack THEN RangeErr
                ELSE <<123>>
                     \o JcsMembers(SortedKids(obj.kids), 1, Append(up, obj), Append(stack, id))
                     \o <<125>>
      [] OTHER -> Thrown

\* jcsStringify(value): the text, or the first error thrown on the way.
jcsStringify(v) ==
    LET t == jcsText(v, <<>>, <<>>)
        errs == {i \in DOMAIN t : t[i] < 0}
    IN  IF errs = {} THEN t
        ELSE <<t[CHOOSE i \in errs : \A j \in errs : i <= j]>>

RECURSIVE sszLite(_)
RECURSIVE SszMembers(_, _)
\* keys.map(k => k + "=" + sszLite(o[k])).join(",")
SszMembers(ks, i) ==
    IF i > Len(ks) THEN <<>>
    ELSE (IF i > 1 THEN <<44>> ELSE <<>>)
         \o <<97 + ks[i].key, 61>> \o sszLite(ks[i].val)
         \o SszMembers(ks, i + 1)

\* sszLite(value): "s:" + value, "i:" + decimal, "s:" + String(value) for
\* a number that is not a finite integer, "o{" members "}", and "n" for null
\* and for everything the tests above it do not catch (a bigint among them).
sszLite(v) ==
    CASE v.k = "str" -> <<115, 58, 97 + v.n>>
      [] v.k = "num" -> <<105, 58, 48 + v.n>>
      [] v.k = "nan" -> <<115, 58, 78, 97, 78>>
      [] v.k = "obj" -> <<111, 123>> \o SszMembers(SortedKids(v.kids), 1) \o <<125>>
      [] OTHER -> <<110>>

RECURSIVE cborAny(_)
RECURSIVE CborMembers(_, _)
\* cborMap's loop: cborText(buf, k); cborAny(buf, obj[k]).
CborMembers(ks, i) ==
    IF i > Len(ks) THEN <<>>
    ELSE <<96 + 1, 97 + ks[i].key>> \o cborAny(ks[i].val) \o CborMembers(ks, i + 1)

\* cborAny(buf, v) for lengths and integers below 24 (one head byte):
\* unsigned integer, text (also String(v) of a number that is no unsigned
\* integer), map with sorted keys, and null (0xf6) for null and for a type
\* the switch does not name.
cborAny(v) ==
    CASE v.k = "num" -> <<v.n>>
      [] v.k = "str" -> <<96 + 1, 97 + v.n>>
      [] v.k = "nan" -> <<96 + 3, 78, 97, 78>>
      [] v.k = "obj" -> <<160 + Len(v.kids)>> \o CborMembers(SortedKids(v.kids), 1)
      [] OTHER -> <<246>>

\* canonicalSerialize(value, algo)
canonicalSerialize(v, algo) ==
    CASE algo = "CBOR" -> cborAny(v)
      [] algo = "SSZ" -> sszLite(v)
      [] OTHER -> jcsStringify(v)

\* contentHash(value, algo): "0x" + sha256 of the bytes; a throw of the
\* serializer passes through.
contentHash(v, algo) ==
    LET bytes == canonicalSerialize(v, algo)
    IN  IF bytes \in {Thrown, RangeErr} THEN bytes ELSE ToHex(sha256Buf(bytes))

\* ---- the values the harness draws
CanonKeys == 1..MaxKeys
CanonLeaves == {Val("num", n, <<>>) : n \in 1..MaxCanonNum} \cup {Val("str", 1, <<>>)}

\* The objects with at most MaxKeys members, distinct keys in any insertion
\* order, and values from V.
ObjsOver(V) ==
    {Val("obj", 0, kids) :
        kids \in {s \in UNION {[1..n -> [key : CanonKeys, val : V]] : n \in 0..MaxKeys} :
                     \A i, j \in DOMAIN s : i # j => s[i].key # s[j].key}}

\* A two-member object to nest, in both insertion orders.
CanonNested ==
    {Val("obj", 0, <<[key |-> p[1], val |-> Val("num", 1, <<>>)],
                     [key |-> p[2], val |-> Val("num", 2, <<>>)]>>) :
        p \in {<<1, 2>>, <<2, 1>>}}

CanonVals == CanonLeaves \cup ObjsOver(CanonLeaves \cup CanonNested)

\* The values equal to v up to the insertion order of object keys, at every
\* nesting level.
RECURSIVE Reorder(_)
Reorder(v) ==
    IF v.k # "obj" THEN {v}
    ELSE LET n == Len(v.kids)
             perms == {q \in [1..n -> 1..n] : \A i, j \in 1..n : i # j => q[i] # q[j]}
             subs == UNION {Reorder(v.kids[i].val) : i \in 1..n}
             picks == {c \in [1..n -> subs] : \A i \in 1..n : c[i] \in Reorder(v.kids[i].val)}
         IN  {Val("obj", 0, [i \in 1..n |-> [key |-> v.kids[q[i]].key, val |-> c[q[i]]]]) :
                 q \in perms, c \in picks}

\* v with BigInt(k) in the place of every number k.
RECURSIVE AsBig(_)
AsBig(v) ==
    IF v.k = "num" THEN Val("big", v.n, <<>>)
    ELSE IF v.k = "obj"
         THEN Val("obj", 0, [i \in 1..Len(v.kids) |->
                                [key |-> v.kids[i].key, val |-> AsBig(v.kids[i].val)]])
         ELSE v

NoOut == [done |-> FALSE, a |-> <<>>, b |-> <<>>]

CanonIdle ==
    /\ cnA = Val("num", 0, <<>>)
    /\ cnB = Val("num", 0, <<>>)
    /\ cnRel = "none"
    /\ cnOut = [al \in Algos |-> NoOut]
    /\ cnPc = "idle"

\* A value and a second one that is logically equal to it: the same members
\* in another insertion order, or bigints for its numbers.
CanonInit ==
    /\ cnA \in CanonVals
    /\ cnRel \in {"reorder", "big"}
    /\ cnB \in IF cnRel = "reorder" THEN Reorder(cnA) ELSE {AsBig(cnA)}
    /\ cnOut = [al \in Algos |-> NoOut]
    /\ cnPc = "input"

\* contentHash(cnA, algo) and contentHash(cnB, algo)
CnHash(algo) ==
    /\ cnPc = "input"
    /\ ~cnOut[algo].done
    /\ cnOut' = [cnOut EXCEPT ![algo] =
                    [done |-> TRUE, a |-> contentHash(cnA, algo), b |-> contentHash(cnB, algo)]]
    /\ UNCHANGED <<cnA, cnB, cnRel, cnPc>>
    /\ UNCHANGED outsideCanon

\* ---- cyclic object graphs
\* A one-member object whose member is the object itself (1) or the object
\* that holds it (2).
CyclicNested ==
    {Val("obj", 0, <<[key |-> k, val |-> Val("ref", n, <<>>)]>>) : k \in CanonKeys, n \in 1..2}

\* The objects that reach themselves: a member is the object itself, or a
\* nested object with a member that points back.
CyclicVals ==
    {v \in ObjsOver(CanonLeaves \cup {Val("ref", 1, <<>>)} \cup CyclicNested) :
        \E i \in DOMAIN v.kids : v.kids[i].val.k \in {"ref", "obj"}}

CyclicInit ==
    /\ cnA \in CyclicVals
    /\ cnB = cnA
    /\ cnRel = "cyclic"
    /\ cnOut = [al \in Algos |-> NoOut]
    /\ cnPc = "input"

\* canonicalSerialize(cnA, "JCS") into a, contentHash(cnA, "JCS") into b
CnSerialize ==
    /\ cnPc = "input"
    /\ cnRel = "cyclic"
    /\ ~cnOut["JCS"].done
    /\ cnOut' = [cnOut EXCEPT !["JCS"] =
                    [done |-> TRUE, a |-> canonicalSerialize(cnA, "JCS"),
                     b |-> contentHash(cnA, "JCS")]]
    /\ UNCHANGED <<cnA, cnB, cnRel, cnPc>>
    /\ UNCHANGED outsideCanon

\* ---- values that are not logically equal
InjScalars ==
    CanonLeaves \cup {Val("null", 0, <<>>), Val("nan", 0, <<>>)}
    \cup {Val("big", n, <<>>) : n \in 1..MaxCanonNum}

\* Scalars, the empty object, and objects of one member.
InjVals ==
    InjScalars
    \cup {Val("obj", 0, <<>>)}
    \cup {Val("obj", 0, <<[key |-> k, val |-> x]>>) : k \in CanonKeys, x \in InjScalars}

\* Two values that differ in a scalar's value or type or in structure; a
\* number and the bigint of the same magnitude count as equal.
InjectInit ==
    /\ cnA \in InjVals
    /\ cnB \in {w \in InjVals : w # cnA /\ AsBig(w) # AsBig(cnA)}
    /\ cnRel = "differ"
    /\ cnOut = [al \in Algos |-> NoOut]
    /\ cnPc = "input"

\* ------------------------------------------------------ IdLRU on its own
\* One IdLRU of size CacheMax and any sequence of has / add calls on it.
IdcIds == {1, 2, 3}

LibInit ==
    /\ idc = <<>>
    /\ idcEntered = <<>>
    /\ idcLast = [op |-> "none", id |-> 0, res |-> FALSE]
    /\ idcOps = 0

\* has(id)
IdcHas(id) ==
    /\ idcOps < MaxIdcOps
    /\ idcOps' = idcOps + 1
    /\ idcLast' = [op |-> "has", id |-> id, res |-> LruHas(idc, id)]
    /\ UNCHANGED <<idc, idcEntered>>
    /\ UNCHANGED outsideLib

\* add(id); res tells whether the map already held the id.
IdcAdd(id) ==
    /\ idcOps < MaxIdcOps
    /\ idcOps' = idcOps + 1
    /\ idc' = IdLruAdd(idc, id, CacheMax)
    /\ idcEntered' = IF LruHas(idc, id) THEN idcEntered ELSE Append(idcEntered, id)
    /\ idcLast' = [op |-> "add", id |-> id, res |-> LruHas(idc, id)]
    /\ UNCHANGED outsideLib

\* ---------------------------------------------------------- specifications
\* The store, from new ProofStore(dir) on an empty directory: one process
\* after another on one directory, within one UTC day.
Init == MerkleIdle /\ StoreInit /\ QueueInit /\ FallbackInit /\ NonceIdle /\ IxInit /\ LibInit /\ HmacInit /\ CanonIdle

Next ==
    \/ \E k \in TaskSlots : EhStat(k) \/ EhLand(k) \/ EhDone(k)
    \/ \E k \in TaskSlots : RecLine(k) \/ RecThrow(k) \/ RecEof(k)
    \/ \E c \in Callers : AppendBegin(c, nAppends + 1)
    \/ \E c \in Callers : AppendLand(c) \/ AppendResume(c)
    \/ \E cut \in {0} \cup Days : CrashReopen(cut)

Spec == Init /\ [][Next]_vars

\* The store of one process across a change of the UTC date.  The file of a
\* new day does not exist yet, so recoverState returns before its scan.
NextDays ==
    \/ \E k \in TaskSlots : EhStat(k) \/ EhLand(k) \/ EhDone(k)
    \/ \E c \in Callers : AppendBegin(c, nAppends + 1)
    \/ \E c \in Callers : AppendLand(c) \/ AppendResume(c)
    \/ DayChange

SpecDays == Init /\ [][NextDays]_vars

\* The Merkle functions applied to every bounded leaf list.
MerkleHarnessInit ==
    InitMerkle /\ StoreInit /\ QueueInit /\ FallbackInit /\ NonceIdle /\ IxInit /\ LibInit /\ HmacInit /\ CanonIdle

SpecMerkle == MerkleHarnessInit /\ [][NextMerkle]_vars

\* The Merkle functions on changed proofs and changed leaf lists.
SpecTamper == MerkleHarnessInit /\ [][NextTamper]_vars

\* The Merkle functions on a longer leaf list and on shortened proofs.
SpecForge == MerkleHarnessInit /\ [][NextForge]_vars

\* Two instances of the append queue on one Redis, the items enqueued in
\* the order of their eventIds.
NextFifo ==
    \/ \E i \in Inst : QInit(i) \/ Poll(i) \/ RenewFails(i)
    \/ Expire
    \/ EnqueueInOrder
    \/ \E i \in Inst : LoopStart(i) \/ Blpop(i)
    \/ \E i \in Inst : WriteDone(i) \/ WriteFails(i)
    \/ \E i \in Inst : Close(i) \/ Restart(i)

SpecFifo == Init /\ [][NextFifo]_vars

\* The same, with what keeps a drain loop going: setImmediate runs the next
\* iteration, blpop answers within its second, and mkdir / appendFile end,
\* well or with an error.
DrainFairness ==
    \A i \in Inst :
        /\ WF_vars(LoopStart(i))
        /\ WF_vars(Blpop(i))
        /\ WF_vars(WriteDone(i) \/ WriteFails(i))

SpecFifoLive == Init /\ [][NextFifo]_vars /\ DrainFairness

\* Two instances of the append queue on one Redis.
NextQueue ==
    \/ \E i \in Inst : QInit(i) \/ Poll(i) \/ RenewFails(i)
    \/ Expire
    \/ \E e \in EventIds : Enqueue(e)
    \/ \E i \in Inst : LoopStart(i) \/ Blpop(i)
    \/ \E i \in Inst : WriteDone(i) \/ WriteFails(i)
    \/ \E i \in Inst : Close(i) \/ Restart(i)

SpecQueue == Init /\ [][NextQueue]_vars

\* One IdLRU, called in any order.
NextIdc == \E id \in IdcIds : IdcHas(id) \/ IdcAdd(id)

SpecIdc == Init /\ [][NextIdc]_vars

\* contentHash under each algorithm, on two logically equal values.
CanonHarnessInit ==
    MerkleIdle /\ StoreInit /\ QueueInit /\ FallbackInit /\ NonceIdle /\ IxInit /\ LibInit /\ HmacInit /\ CanonInit

NextCanon == \E algo \in Algos : CnHash(algo)

SpecCanon == CanonHarnessInit /\ [][NextCanon]_vars

\* canonicalSerialize under JCS on cyclic object graphs.
CyclicHarnessInit ==
    MerkleIdle /\ StoreInit /\ QueueInit /\ FallbackInit /\ NonceIdle /\ IxInit /\ LibInit /\ HmacInit /\ CyclicInit

NextCyclic == CnSerialize

SpecCyclic == CyclicHarnessInit /\ [][NextCyclic]_vars

\* contentHash under each algorithm, on two values that are not equal.
InjectHarnessInit ==
    MerkleIdle /\ StoreInit /\ QueueInit /\ FallbackInit /\ NonceIdle /\ IxInit /\ LibInit /\ HmacInit /\ InjectInit

SpecInject == InjectHarnessInit /\ [][NextCanon]_vars

\* One instance of the append queue without Redis, two concurrent callers.
NextFallback ==
    \/ \E c \in Callers, e \in EventIds : FbBegin(c, e)
    \/ \E c \in Callers : FbLand(c) \/ FbResume(c) \/ FbFails(c)

SpecFallback == Init /\ [][NextFallback]_vars

\* The nonce store under each implementation and backend.
NonceHarnessInit ==
    MerkleIdle /\ StoreInit /\ QueueInit /\ FallbackInit /\ NonceInit /\ IxInit /\ LibInit /\ HmacInit /\ CanonIdle

NextNonce ==
    \/ \E k \in Keys : CheckAndSetNonce(k)
    \/ \E k \in Keys, a \in 0..(MaxNow + NonceTtl) : TimerFires([key |-> k, at |-> a])
    \/ Tick

SpecNonce == NonceHarnessInit /\ [][NextNonce]_vars

\* requireHmac in front of the nonce store (memory or Redis), any requests.
HmacHarnessInit ==
    NonceHarnessInit /\ nsMode # "file"

NextHmac ==
    \/ \E req \in Requests : RequireHmac(req)
    \/ \E k \in Keys, a \in 0..(MaxNow + NonceTtl) : TimerFires([key |-> k, at |-> a])
    \/ Tick

SpecHmac == HmacHarnessInit /\ [][NextHmac]_vars

\* The index-backed store: appends of both kinds, the stream and its
\* errors, restarts and a change of day.
NextIx ==
    \/ IxAppend(TypeOf(ixCount + 1))
    \/ IxFlush
    \/ IxWriteError
    \/ IxDayChange
    \/ IxReopen

SpecIx == Init /\ [][NextIx]_vars

\* The index-backed store with inclusion-proof queries.
NextIxQuery ==
    \/ IxAppend(TypeOf(ixCount + 1))
    \/ IxFlush
    \/ IxDayChange
    \/ IxReopen
    \/ \E d \in Days, index \in (-1)..MaxIxAppends : IxGetPath(d, index)

SpecIxQuery == Init /\ [][NextIxQuery]_vars

\* The index-backed store of one process whose writes all succeed.
NextIxRun ==
    \/ IxAppend(TypeOf(ixCount + 1))
    \/ IxFlush
    \/ IxDayChange

SpecIxRun == Init /\ [][NextIxRun]_vars

\* ------------------------------------------------------------------ claims
\* C1: in every partition file each record line has lineHash =
\* H(prevHash || rawLine), and its prevHash is the lineHash of the record
\* line before it in the file (the header hash, or null, for the first record).
C1_HashChain ==
    \A d \in Days : \A i \in 1..Len(fsLines[d]) :
        LET ln == fsLines[d][i]
            before == {j \in 1..(i - 1) : fsLines[d][j].t = "rec"}
        IN  ln.t = "rec" =>
                /\ ln.lineHash = sha(ln.prevHash \o ln.raw)
                /\ IF before = {}
                   THEN ln.prevHash \in {Null, sha(HeaderText(d))}
                   ELSE LET j == CHOOSE x \in before : \A y \in before : y <= x
                        IN  ln.prevHash = fsLines[d][j].lineHash

\* C2: an eventId enqueued twice and drained has exactly one line in the
\* ledger file, whatever leader changes or restarts happened in between
\* (items whose write failed, or that died with their process, aside).
C2_ExactlyOnce ==
    \A e \in EventIds :
        (/\ nEnq[e] = 2
         /\ CountIn(qRedis, e) = 0
         /\ \A i \in Inst : ~(lpc[i] = "writing" /\ item[i] = e)
         /\ e \notin lostItems)
        => CountLines(qFile, e) = 1

\* C2, as the code keeps it: one process writes an eventId at most once as
\* long as the id stays in its idempotency cache, and an eventId that was
\* taken off the queue and not lost to a failed write or a dead process has
\* at least one line.
C2_OncePerCache ==
    \A e \in EventIds :
        /\ \A i \in Inst :
               \/ Cardinality({k \in DOMAIN qFile :
                                 qFile[k].eventId = e /\ qFile[k].by = i}) <= 1
               \/ <<i, e>> \in evictions
        /\ (/\ nEnq[e] > CountIn(qRedis, e)
            /\ \A i \in Inst : ~(lpc[i] = "writing" /\ item[i] = e)
            /\ e \notin lostItems)
           => CountLines(qFile, e) >= 1

C2_Witness ==
    \E e \in EventIds : \E i \in Inst :
        /\ nEnq[e] = 2
        /\ CountIn(qRedis, e) = 0
        /\ lpc[i] = "idle" /\ LruHas(lru[i], e)
        /\ CountLines(qFile, e) = 1
        /\ \E k \in DOMAIN qFile : qFile[k] = [eventId |-> e, by |-> i]
        /\ e \notin lostItems

\* C3: in fallback mode concurrent enqueue calls with the same eventId append
\* at most one line, as long as the id was not evicted from the cache.
C3_FallbackOnce ==
    \A e \in EventIds : e \notin fbEvicted => CountIn(fbFile, e) <= 1

\* C4: no two instances sharing the lease store have a ledger append in
\* flight at the same time.
C4_SingleWriter == Cardinality({i \in Inst : lpc[i] = "writing"}) <= 1

\* C4, as the lease gives it: two instances have appends in flight together
\* only when one of them started its iteration as leader and its lease has
\* since left the store (expired, or released by close()).
C4_WriterHeldLease ==
    \A i \in Inst : \A j \in Inst \ {i} :
        (lpc[i] = "writing" /\ lpc[j] = "writing") => (lost[i] \/ lost[j])

C4_Witness ==
    /\ lpc[1] = "writing" /\ lpc[2] = "writing"
    /\ lost[1] /\ ~lost[2]
    /\ lease = 2

\* C5: of two instances that call acquire() against a free lease, the store
\* answering one call at a time, exactly one is granted the lease.
C5_OneWinner ==
    Cardinality(race.callers) = 2 => Cardinality(race.winners) = 1

C5_Witness ==
    /\ race.callers = Inst
    /\ race.winners = {2}
    /\ lease = 2
    /\ isLeader[2] /\ ~isLeader[1]

\* C6: after a crash that cut the partition file in the middle of a line and
\* a reopen, the leaf list rebuilt by recovery has one leaf per complete
\* record line, and the first append takes the last valid hash as prevHash.
C6_RecoveredAfterCut ==
    LET Cut(d) == fsFrag[d] \/ \E i \in 1..Len(fsLines[d]) : fsLines[d][i].t = "bad"
    IN  /\ \A c \in Callers :
               (calls[c].pc # "idle" /\ calls[c].first /\ Cut(calls[c].fp))
               => calls[c].line.prevHash = calls[c].want
        /\ (tasks = <<>> /\ sinceOpen = 0 /\ fsFrag[today])
           => Len(leafs) = Len(ValidLeafs(fsLines[today], Len(fsLines[today])))

\* C7: once the recovery scan is over, the chain pointer and the leaf list are
\* those of all the valid lines of the file: a line that does not parse is
\* skipped and the lines after it are still read.
C7_ScanSkipsBadLines ==
    (tasks = <<>> /\ sinceOpen = 0 /\ fsExists[today])
    => /\ leafs = ValidLeafs(fsLines[today], Len(fsLines[today]))
       /\ lastHash = ValidLast(fsLines[today], Len(fsLines[today]))

\* C8: checkAndSetNonce answers true on the first use of a key and false on
\* every repeat less than ttl after the key was admitted.
C8_NonceOnce ==
    nsLast.key # 0 =>
        /\ nsLast.prev = -1 => nsLast.ok
        /\ (nsLast.prev # -1 /\ nsLast.at - nsLast.prev < NonceTtl) => ~nsLast.ok

\* C11: currentRoot() of the hash-chained store reports for the in-memory
\* leaf list the value merkleRoot (self-pairing, all-zero sentinel for the
\* empty list) gives for the hashes of those leaves.
C11_RootIsMerkleRoot ==
    currentRoot(leafs).merkleRoot = merkleRoot(LeafNodes(leafs))

\* C12: the i-th leaf of the in-memory leaf list is the leaf of the i-th
\* line written to the partition (landed or still in the stream), for any
\* interleaving of append / appendAny calls.
C12_LeafOrder ==
    LET lines == ixFiles[ixWriter.dayKey] \o ixBuf
    IN  \A i \in 1..Len(ixLeaves) :
            i <= Len(lines) /\ ixLeaves[i] = IxLeaf(lines[i])

\* s is a prefix of t.
IsPrefix(s, t) == Len(s) <= Len(t) /\ SubSeq(t, 1, Len(s)) = s

\* The event ids of the lines the drain loops have written, in file order.
DrainedIds(f) == [k \in DOMAIN f |-> f[k].eventId]

LineHashes(d) ==
    {fsLines[d][i].lineHash : i \in {k \in DOMAIN fsLines[d] : fsLines[d][k].t = "rec"}}

\* The proofHash values of the records append has issued to the file of day d,
\* landed or in flight.
IssuedTo(d) ==
    {fsLines[d][i].raw : i \in {k \in DOMAIN fsLines[d] : fsLines[d][k].t = "rec"}}
    \cup {calls[c].line.raw : c \in {x \in Callers : calls[x].pc # "idle" /\ calls[x].fp = d}}

\* C14: once the store has rotated to a later day, the chain pointer is not a
\* lineHash of an earlier day's file, the leaf list holds leaves of the new
\* day's records only, and the first record in the new day's file has a
\* prevHash that is not a lineHash of an earlier day's file.
C14_FreshChain ==
    \A d \in Days : \A e \in Days : e < d =>
        /\ \A i \in DOMAIN fsLines[d] :
              (/\ fsLines[d][i].t = "rec"
               /\ \A j \in 1..(i - 1) : fsLines[d][j].t # "rec")
              => fsLines[d][i].prevHash \notin LineHashes(e)
        /\ day = d =>
              /\ lastHash \notin LineHashes(e)
              /\ \A i \in DOMAIN leafs : leafs[i] \in IssuedTo(d)

\* C15: an append that finds a rotation due (the day has changed or the byte
\* ceiling is reached) leaves the closing partition with a root snapshot and a
\* leaf index over all its leaves, and does not fail: it completes in the new
\* partition.
C15_RotationCompletes ==
    \A x \in ixRotated :
        /\ ixRes[x.r] # "threw"
        /\ ixIndex[x.closing] = IndexOf(x.leaves)
        /\ ixRootFile[x.closing] = RootFileOf(x.leaves)

\* The partition files that hold records.
Partitions == {d \in Days : ixFiles[d] # <<>>}

\* C16: with no day change, once N >= 1 appends of RecSize bytes each have
\* been made and the stream has drained, the records are in
\* ceil(N * RecSize / MaxBytes) partitions.
C16_SizeRotation ==
    (ixToday = 1 /\ ixCount >= 1 /\ ixBuf = <<>> /\ ixWaiters = <<>>)
    => Cardinality(Partitions) = (ixCount * RecSize + MaxBytes - 1) \div MaxBytes

\* C17: a record whose file write failed was reported to its caller as
\* failed and has left no leaf in the leaf list, and after a failed write the
\* byte counter counts the bytes of the file only.
C17_FailedWriteSurfaced ==
    /\ \A r \in ixFailed :
          /\ ixRes[r] = "failed"
          /\ \A i \in DOMAIN ixLeaves : ixLeaves[i] # IxLeaf(IxLine(r, TypeOf(r)))
    /\ ixBroken => ixWriter.bytes = RecSize * Len(ixFiles[ixWriter.dayKey])

\* C18: every line of a partition file, whether written by append ("pc") or
\* by appendAny ("px"), carries a lineHash, and from the second line on its
\* prevHash is the lineHash of the line before it.
C18_OneChain ==
    \A d \in Days : \A i \in DOMAIN ixFiles[d] :
        /\ ixFiles[d][i].lineHash # Null
        /\ i > 1 => ixFiles[d][i].prevHash = ixFiles[d][i - 1].lineHash

C20_EveryLeafHasProof ==
    (ixWaiters = <<>> /\ ~ixBroken) =>
        \A i \in 0..(ixCurrentRoot.leafCount - 1) :
            LET p == getPath(ixCurrentRoot.day, i)
            IN  /\ p.found
                /\ p.root = ixCurrentRoot.merkleRoot
                /\ verifyMerkleProof(ToHex(ixLeaves[i + 1]), p.branch, ixCurrentRoot.merkleRoot)

\* C21: once close() of an instance has returned, that instance takes no
\* further item from the list and appends no further line: an iteration that
\* was in flight has finished before close() reports closed.
C21_ClosedIsQuiet ==
    [][ \A i \in Inst :
           (stopped[i] /\ stopped'[i]) =>
               /\ ~(lpc[i] = "blpop" /\ qRedis' # qRedis)
               /\ ~(lpc[i] = "writing" /\ Len(qFile') > Len(qFile)) ]_vars

\* C22: the step in which an iteration of the drain loop fails on its item
\* counts one error, leaves the list, the file and the idempotency cache as
\* they were (the item is not pushed back and its id is not recorded), marks
\* the item lost, and ends the iteration so that the next one can start.
C22_FailedItemDropped ==
    [][ \A i \in Inst :
           errors'[i] = errors[i] + 1 =>
               /\ qRedis' = qRedis
               /\ qFile' = qFile
               /\ lru'[i] = lru[i]
               /\ item[i] \in lostItems'
               /\ lpc'[i] = "idle" ]_vars

\* An instance has failed on an item, the item is not on the list and not in
\* its cache, and the instance is in a later iteration, waiting for an item.
C22_Witness ==
    \E i \in Inst : \E e \in lostItems :
        /\ errors[i] >= 1
        /\ ~LruHas(lru[i], e)
        /\ CountIn(qRedis, e) = 0
        /\ lpc[i] = "blpop"

\* C23: an iteration of the drain loop issues blpop only if isLeader of its
\* instance is true when the iteration starts; an item leaves the list only in
\* the blpop of such an iteration and a line is written only in its write.
C23_FollowerIdle ==
    [][ /\ \A i \in Inst :
              /\ lpc'[i] = "blpop" => (lpc[i] = "blpop" \/ (lpc[i] = "idle" /\ isLeader[i]))
              /\ lpc'[i] = "writing" => lpc[i] \in {"blpop", "writing"}
        /\ Len(qRedis') < Len(qRedis) => \E i \in Inst : lpc[i] = "blpop"
        /\ Len(qFile') > Len(qFile) => \E i \in Inst : lpc[i] = "writing" ]_vars

\* An instance that was demoted (its lease went while it held it) is between
\* iterations, not leader and not closed, with an item waiting on the list.
C23_Witness ==
    \E i \in Inst :
        /\ lost[i] /\ ~isLeader[i] /\ ~stopped[i]
        /\ lpc[i] = "idle"
        /\ qRedis # <<>>

\* The line the drain loop writes for the item of event e: item.line, the
\* JSON.stringify(line) POST /proof enqueued, as it is.
DrainedLine(e) == [t |-> "rec", raw |-> <<e>>, prevHash |-> Null, lineHash |-> Null]

\* C24: every line the drain loops have written carries a lineHash (chain
\* metadata), and the ledger's leaf list has advanced by one for each of them:
\* currentRoot().leafCount counts them.
C24_DrainUsesLedger ==
    /\ \A k \in DOMAIN qFile : DrainedLine(qFile[k].eventId).lineHash # Null
    /\ currentRoot(leafs).leafCount = Len(qFile)

\* The last n elements of s (all of s if it is shorter).
LastOf(s, n) == SubSeq(s, IF Len(s) > n THEN Len(s) - n + 1 ELSE 1, Len(s))

\* C25: after every call the cache holds at most CacheMax ids, each once, and
\* they are exactly the ids that entered it most recently, in the order they
\* entered: has() and an add of an id it already holds move nothing.
C25_InsertionOrderBound ==
    /\ Len(idc) <= CacheMax
    /\ \A i, j \in DOMAIN idc : i # j => idc[i] # idc[j]
    /\ idc = LastOf(idcEntered, CacheMax)

\* The cache is full and has evicted, and the last call re-added the oldest
\* id it holds, which is still the oldest.
C25_Witness ==
    /\ Len(idcEntered) > CacheMax
    /\ idcLast.op = "add" /\ idcLast.res
    /\ Len(idc) = CacheMax
    /\ idc[1] = idcLast.id

\* C26: a partition file that holds a record begins with its header, holds no
\* second header, and its first record has the hash of that header as
\* prevHash.
C26_HeaderFirst ==
    \A d \in Days :
        LET recs == {i \in DOMAIN fsLines[d] : fsLines[d][i].t = "rec"}
            hdrs == {i \in DOMAIN fsLines[d] : fsLines[d][i].t = "header"}
        IN  recs # {} =>
                /\ hdrs = {1}
                /\ \A i \in recs :
                      (\A j \in recs : i <= j)
                      => fsLines[d][i].prevHash = sha(HeaderText(d))

\* C27: for two values that differ only in the insertion order of object
\* keys, at any nesting level, contentHash gives the same hash (the serialized
\* bytes are the same) under JCS, under CBOR and under SSZ.
C27_KeyOrderInvariant ==
    cnRel = "reorder" =>
        \A al \in Algos :
            cnOut[al].done => (cnOut[al].a = cnOut[al].b /\ cnOut[al].a # Thrown)

\* Two values with their keys in different insertion orders at the top and
\* in a nested object have been hashed under all three algorithms.
C27_Witness ==
    /\ cnRel = "reorder"
    /\ cnA.k = "obj" /\ Len(cnA.kids) = 2
    /\ cnA.kids[1].key # cnB.kids[1].key
    /\ \E i, j \in 1..2 :
          /\ cnA.kids[i].key = cnB.kids[j].key
          /\ cnA.kids[i].val.k = "obj"
          /\ cnA.kids[i].val # cnB.kids[j].val
    /\ \A al \in Algos : cnOut[al].done

\* C30: an object {n: k} and the object {n: BigInt(k)} have the same
\* contentHash under JCS and under SSZ.
C30_BigintNormalizes ==
    (/\ cnRel = "big"
     /\ cnA.k = "obj" /\ Len(cnA.kids) = 1 /\ cnA.kids[1].val.k = "num")
    => \A al \in {"JCS", "SSZ"} :
           cnOut[al].done => (cnOut[al].a = cnOut[al].b /\ cnOut[al].b # Thrown)

\* C28 as stated: a proof with one sibling hash changed, one side flag
\* flipped, or presented for another leaf never verifies against the root.
C28_AnyChangeFails == mkPc = "tampered" => ~mkTry.ok

\* C28: a proof with one sibling hash changed, or presented for another leaf,
\* never verifies against the root; a proof with one side flag flipped
\* verifies exactly when the sibling of that step is the node itself (an
\* unpaired node paired with itself, or two equal neighbours).
C28_ChangeFailsUnlessSelfPaired == mkPc = "tampered" => (mkTry.ok <=> mkTry.same)

\* The side flag of the self-paired third leaf of a three-leaf list was
\* flipped and the proof still verified.
C28_Witness ==
    /\ mkPc = "tampered"
    /\ Len(mkLeaves) = 3 /\ mkIndex = 2
    /\ mkTry.kind = "side" /\ mkTry.at = 1
    /\ mkTry.ok

\* C29: computing the root again gives the same root, and the root changes
\* when one leaf is replaced by a different one or two different leaves are
\* swapped.
C29_RootSensitive == mkPc = "perturbed" => (mkTry.ok /\ mkTry.root # mkRoot)

\* Two different leaves of a five-leaf list, the last (self-paired) one among
\* them, were swapped and the root came out different.
C29_Witness ==
    /\ mkPc = "perturbed"
    /\ Len(mkLeaves) = 5
    /\ mkTry.kind = "swap"
    /\ mkLeaves[4] # mkLeaves[5] /\ mkTry.at = 4
    /\ mkTry.root # mkRoot

\* C31: canonicalSerialize of a cyclic object graph under JCS ends with the
\* circular-structure TypeError of JSON.stringify: no bytes are returned and
\* contentHash returns no hash.
C31_CircularError ==
    (cnRel = "cyclic" /\ cnOut["JCS"].done)
    => (cnOut["JCS"].a = Thrown /\ cnOut["JCS"].b = Thrown)

\* The chained record lines of a file: its lines that are neither the header
\* nor unparseable.
RecordLines(lines) == {i \in DOMAIN lines : lines[i].t = "rec"}

\* C32: whenever no append call is in flight (and no ensureHeader or
\* recoverState call is still running), currentRoot().leafCount equals the
\* number of chained record lines in the current partition file.
C32_LeafsMirrorFile ==
    ((\A c \in Callers : calls[c].pc = "idle") /\ tasks = <<>>)
    => currentRoot(leafs).leafCount = Cardinality(RecordLines(fsLines[day]))

\* C33: while an append call waits for the write stream's "drain", no other
\* append / appendAny call writes a line to that stream.
C33_Backpressure ==
    [][ixWaiters # <<>> => Len(ixBuf') <= Len(ixBuf)]_vars

\* C34: each time the leaf count of the open partition reaches a positive
\* multiple of the flush interval, the root file and the index file of the
\* partition are written from the leaves in memory at that moment: the root
\* file's leafCount, the number of leaves in the index file and the leaf count
\* reached are equal, the index file holds those leaves, and the root file's
\* merkleRoot is the Merkle root of the leaves in the index file.
C34_SnapshotConsistent ==
    [][LET d == ixWriter.dayKey
           k == LastFlush(Len(ixLeaves), ixLeaves')
       IN  (Len(ixLeaves') > Len(ixLeaves) /\ k > 0)
           => /\ ixRootFile'[d].exists /\ ixIndex'[d].exists
              /\ ixRootFile'[d].leafCount = k
              /\ Len(ixIndex'[d].leaves) = k
              /\ LeafBufs(ixIndex'[d].leaves) = SubSeq(ixLeaves', 1, k)
              /\ FromHex(ixRootFile'[d].merkleRoot)
                    = merkleRoot(LeafBufs(ixIndex'[d].leaves))]_vars

\* The leaf count has reached the flush interval a second time and both
\* files were written again.
C34_Witness ==
    LET d == ixWriter.dayKey
    IN  /\ Len(ixLeaves) = 2 * FlushEvery
        /\ ixRootFile[d].exists /\ ixRootFile[d].leafCount = Len(ixLeaves)
        /\ ixIndex[d].exists /\ Len(ixIndex[d].leaves) = Len(ixLeaves)

\* C35 as stated: the lines of the file are in the order in which their items
\* were enqueued, whichever instances drained them.
C35_Fifo ==
    \A a, b \in DOMAIN qFile : a < b => qFile[a].eventId < qFile[b].eventId

\* C35, as the drain loop gives it: the lines one running instance has
\* written are in the order in which their items were enqueued.
C35_FifoPerWriter ==
    \A a, b \in DOMAIN qFile :
        (a < b /\ qFile[a].by = qFile[b].by /\ qFile[a].by # 0)
        => qFile[a].eventId < qFile[b].eventId

\* One instance has drained both items while the other instance was running
\* too, and both lines are in the file.
C35_Witness ==
    \E i \in Inst :
        /\ Len(qFile) = 2
        /\ qFile[1] = [eventId |-> 1, by |-> i] /\ qFile[2] = [eventId |-> 2, by |-> i]
        /\ \A j \in Inst : lpc[j] # "init"

\* C36: if some instance stays leader from some point on (its drain loop
\* running, the store answering), the list is emptied: every item enqueued is
\* in the end dequeued and none stays in the list for ever.
C36_DrainLiveness ==
    (\E i \in Inst : <>[]isLeader[i]) => <>[](qRedis = <<>>)

\* A leader has emptied the list: one item was applied, the other was
\* dequeued and counted as an error.
C36_Witness ==
    \E i \in Inst :
        /\ isLeader[i] /\ lease = i /\ lpc[i] = "idle"
        /\ qRedis = <<>>
        /\ \A e \in EventIds : nEnq[e] = 1
        /\ Len(qFile) = 1 /\ qFile[1].by = i
        /\ errors[i] = 1

\* C37: leaf lists of different lengths have different Merkle roots: the root
\* of a list with one more leaf at its end is never the root of the list.
C37_RootBindsCount ==
    mkTry.kind = "extend" => mkTry.root # mkRoot

\* C38: verifyMerkleProof(x, branch, merkleRoot(L)) returns true only if x is
\* one of the leaves of L: a value above the leaves with the rest of a leaf's
\* proof (or the root with no steps) is not accepted.
C38_ProofSound ==
    (mkTry.kind = "shorten" /\ mkTry.ok) => mkTry.same

\* C39: under each algorithm, two values that are not logically equal never
\* serialize to the same bytes: whenever contentHash returns a hash for both,
\* the two hashes differ.
C39_Injective ==
    cnRel = "differ" =>
        \A al \in Algos :
            (cnOut[al].done /\ cnOut[al].a \notin {Thrown, RangeErr}
                            /\ cnOut[al].b \notin {Thrown, RangeErr})
            => cnOut[al].a # cnOut[al].b

\* C40: a request that requireHmac rejects for missing headers, an unknown
\* key or a bad signature leaves the nonce store as it was, and a correctly
\* signed request is answered "replay" only if its nonce was admitted before
\* by a correctly signed request.
C40_RejectedKeepsNonce ==
    /\ [](hmLast.res = "replay" => nsLast.prev # -1)
    /\ [][(hmLast'.n # hmLast.n /\ hmLast'.res \in EarlyRejects)
            => UNCHANGED <<nsMem, nsRedis, nsFiles, nsTimers, nsAdmitted>>]_vars

\* A correctly signed request went through to next() with a nonce that a
\* rejected request had carried before it.
C40_Witness ==
    /\ hmLast.res = "next"
    /\ hmLast.nonce \in hmTried
    /\ nsLast.ok /\ nsLast.prev = -1

\* C9: for every non-empty leaf list L and every valid index i,
\* verifyMerkleProof(L[i], merklePath(L, i), merkleRoot(L)) returns true.
C9_PathVerifies == mkPc = "verified" => mkOk = TRUE

\* C9 witness: the proof of the unpaired third leaf of a three-leaf list
\* (the self-pairing case) has been built and verified.
C9_Witness ==
    /\ mkPc = "verified"
    /\ Len(mkLeaves) = 3
    /\ mkIndex = 2
    /\ Len(mkBranch) = 2
    /\ mkOk

\* C10: merkleRoot pairs adjacent nodes level by level and pairs an unpaired
\* trailing node with itself, never promoting it unchanged: the roots of
\* lists of one to five leaves are the explicit trees below, and
\* root([x,y,z]) = H(H(x,y), H(z,z)), which differs from H(H(x,y), z).
C10_SelfPairing ==
    LET L == mkLeaves
        HH(l, r) == sha256Buf(l \o r)
    IN  mkPc # "input" =>
          /\ Len(L) = 1 => mkRoot = L[1]
          /\ Len(L) = 2 => mkRoot = HH(L[1], L[2])
          /\ Len(L) = 3 =>
               /\ mkRoot = HH(HH(L[1], L[2]), HH(L[3], L[3]))
               /\ mkRoot # HH(HH(L[1], L[2]), L[3])
          /\ Len(L) = 4 => mkRoot = HH(HH(L[1], L[2]), HH(L[3], L[4]))
          /\ Len(L) = 5 =>
               mkRoot = HH(HH(HH(L[1], L[2]), HH(L[3], L[4])),
                           HH(HH(L[5], L[5]), HH(L[5], L[5])))
          /\ Len(L) = 6 =>
               mkRoot = HH(HH(HH(L[1], L[2]), HH(L[3], L[4])),
                           HH(HH(L[5], L[6]), HH(L[5], L[6])))

\* C10 witness: the root of three pairwise different leaves has been computed.
C10_Witness ==
    /\ mkPc = "rooted"
    /\ Len(mkLeaves) = 3
    /\ mkLeaves[1] # mkLeaves[2]
    /\ mkLeaves[2] # mkLeaves[3]
    /\ mkLeaves[1] # mkLeaves[3]
    /\ mkRoot = sha256Buf(sha256Buf(mkLeaves[1] \o mkLeaves[2])
                          \o sha256Buf(mkLeaves[3] \o mkLeaves[3]))

====
